---- MODULE Spec2Model ----
(***************************************************************************)
(* Hot-page tracking and promotion: the kpromoted hotness table and its    *)
(* per-node sweeper (mm/kpromoted.c), the IBS per-cpu sample ring and its  *)
(* work handler, and the CXL hotness monitoring unit's hotlist drain       *)
(* (drivers/cxl/hmu_perf.c).                                               *)
(*                                                                         *)
(* Several specifications share the module.  SpecTable runs whole calls of  *)
(* kpromoted_record_access and whole sweeps one after the other;           *)
(* SpecTableConc runs them step by step, interleaved, with the bucket      *)
(* mutexes.  SpecRing is the sample ring of one cpu, SpecRingCpus the      *)
(* rings of two cpus with the irq_work and the work item they share.       *)
(* SpecHmu is the hotlist reader of one unit with whole drains,            *)
(* SpecHmuConc the same reader with the interrupt handler and cxl_hmu_stop *)
(* running step by step, SpecHmuCtl the configuration, start and stop of   *)
(* the unit.  SpecSweeper is the life of the kpromoted threads from        *)
(* kpromoted_init on.  Each keeps the variables of the others at their     *)
(* initial values.                                                         *)
(***************************************************************************)
EXTENDS Integers, Sequences, FiniteSets, TLC

VARIABLES
    \* ---- mm/kpromoted.c
    page_hotness_hash,   \* bucket -> list of page_hotness_info, head first
    page_hotness_lock,   \* bucket -> owner of the bucket mutex
    page_nid,            \* pfn -> node the folio is on (folio_nid / pfn_to_nid)
    page_kind,           \* pfn -> "lru" | "offline" | "zone_device" | "non_lru"
    jiffies,             \* the clock
    rec,                 \* caller of kpromoted_record_access -> its position and locals
    kp,                  \* node -> position and locals of that node's kpromoted thread
    hist,                \* history: pfn -> the calls that updated its present record
    ksweep,              \* history: node -> what the present and the previous sweep did
    budget,              \* how many calls, sweeps, ticks and page changes have happened
    lim,                 \* the run's limits: on budget, on the pages called for, on lag,
                         \* on the entries the device produces
    \* ---- IBS access profiling, one cpu
    ibs_samples,         \* ibs_s->samples: slot -> ibs_sample
    ibs_head,            \* ibs_s->head
    ibs_tail,            \* ibs_s->tail
    pop,                 \* position and locals of ibs_pop_sample in the work handler
    ibs_g,               \* history: samples pushed, accepted, popped; the count of
                         \* HWHINT_BUFFER_FULL (dropped) and of irq_work_queue (queued)
    \* ---- drivers/cxl/hmu_perf.c, one hotness monitoring unit
    hmu_list,            \* the device's hotlist: slot -> entry
    hmu_head,            \* CHMU_INST0_HEAD_REG
    hmu_tail,            \* CHMU_INST0_TAIL_REG
    hmu_status,          \* CHMU_INST0_STATUS_REG: enabled, the operation in progress,
                         \* the interrupt bits set, the counter width
    aux_mem,             \* the AUX buffer (buf->base), in words of 8 bytes
    buf_pos,             \* buf->pos
    handle_head,         \* handle->head of the perf output handle
    hmu_session,         \* "stopped" | "active" | "ended": state of the AUX transaction
    hmu_g,               \* history: the entries produced, what the last drain did and
                         \* what cxl_hmu_irq returned last
    hmu_run,             \* hmu->lock, whether the interrupt is bound to the event's cpu,
                         \* and the position and locals of cxl_hmu_irq and cxl_hmu_stop
    hmu_ctl,             \* the tracking parameters in hmu, event->hw.state, the
                         \* configuration registers, the position of cxl_hmu_start and
                         \* cxl_hmu_stop, and history: what the last calls did
    \* ---- IBS access profiling, several cpus
    ibs_cpus,            \* the ring of each cpu, ibs_irq_work, ibs_work, and history
    \* ---- mm/kpromoted.c, the threads
    kthreads             \* pgdat->kpromoted of each node, the kpromoted threads that
                         \* kthread_run has created with their positions, and history

tableVars == <<page_hotness_hash, page_hotness_lock, page_nid, page_kind, jiffies,
               rec, kp, hist, ksweep, budget, lim>>

ringVars == <<ibs_samples, ibs_head, ibs_tail, pop, ibs_g>>

hmuVars == <<hmu_list, hmu_head, hmu_tail, hmu_status, aux_mem, buf_pos, handle_head,
             hmu_session, hmu_g, hmu_run>>

ctlVars == <<hmu_ctl>>

cpusVars == <<ibs_cpus>>

sweeperVars == <<kthreads>>

vars == <<tableVars, ringVars, hmuVars, ctlVars, cpusVars, sweeperVars>>

notTable == <<ringVars, hmuVars, ctlVars, cpusVars, sweeperVars>>
notRing == <<tableVars, hmuVars, ctlVars, cpusVars, sweeperVars>>
notHmu == <<tableVars, ringVars, ctlVars, cpusVars, sweeperVars>>
notHmuCtl == <<tableVars, ringVars, cpusVars, sweeperVars>>
notCpus == <<tableVars, ringVars, hmuVars, ctlVars, sweeperVars>>
notSweeper == <<ringVars, hmuVars, ctlVars, cpusVars>>

----------------------------------------------------------------------------
\* Bounds of the model.

NrBkts == 2            \* buckets of the table (the kernel has 1 << KPROMOTED_HASH_ORDER)
MaxJiffies == 5        \* the clock stops here
JIFFY_MSEC == 2500     \* milliseconds per tick of the model's clock
WordBits == 16         \* width of unsigned long in the model
MaxLag == 1            \* a sample is recorded at most this many ticks after it was taken
SerialCalls == 3       \* SpecTable: calls of kpromoted_record_access in a run
SerialSweeps == 2      \* SpecTable: sweeps in a run
SerialTicks == 5       \* SpecTable: times the clock moves in a run
ConcCalls == 2         \* SpecTableConc: calls in a run
ConcSweeps == 1        \* SpecTableConc: sweeps in a run
ConcTicks == 1         \* SpecTableConc: times the clock moves in a run
ConcEnv == 1           \* SpecTableConc: changes of a page from outside in a run
IBS_NR_SAMPLES == 4    \* slots of the sample ring (the kernel has 50)
MaxPush == 6           \* SpecRing: calls of ibs_push_sample in a run
MaxNmis == 3           \* SpecRingCpus: NMIs that carry a sample in a run
HotlistSize == 8       \* entries of the device's hotlist (CAP0 hotlist size)
AuxWords == 16         \* length of the AUX buffer in words of 8 bytes
MaxProduce == 12       \* SpecHmu: entries the device produces in a run
ConcProduce == 7       \* SpecHmuConc: entries the device produces in a run
PollTimeoutUs == 20    \* timeout_us of the polls of STATUS (the kernel has 100000)
MaxInits == 2          \* SpecHmuCtl: calls of cxl_hmu_event_init in a run
MaxStarts == 2         \* SpecHmuCtl: calls of cxl_hmu_start in a run
MaxRuns == 2           \* SpecSweeper: calls of kpromoted_run after kpromoted_init

\* Program constants.

MSEC_PER_SEC == 1000
KPROMOTED_FREQ_WINDOW == 5 * MSEC_PER_SEC
KPRMOTED_FREQ_THRESHOLD == 2
KPROMOTE_DELAY == MSEC_PER_SEC
NUMA_NO_NODE == -1
FALLBACK_NODE == 1
ENOMEM == 12
ENOENT == 2

Pfns == {0, 1, 2}
Bkts == 0 .. (NrBkts - 1)
Recorders == {1, 2}                \* tasks that call kpromoted_record_access
CpuNodes == {0, 1}                 \* nodes with CPUs: the top tier, one kpromoted each
Nodes == {0, 1, 2}                 \* node 2 is the lower tier
PageKinds == {"lru", "offline", "zone_device", "non_lru"}
CallNids == {NUMA_NO_NODE, 0}      \* the nid a caller passes: unknown, or its node
EnvPfns == {0}                     \* the pages that change from outside

ULONG_MOD == 2 ^ WordBits
ulong_sub(a, b) == (a - b + ULONG_MOD) % ULONG_MOD
msecs_to_jiffies(m) == (m + JIFFY_MSEC - 1) \div JIFFY_MSEC

hash_min(pfn) == pfn % NrBkts
node_is_toptier(nid) == nid \in CpuNodes

NoOwner == <<>>
RecTask(t) == <<"record_access", t>>
KpTask(n) == <<"kpromoted", n>>

NULL == 0
ERR_PTR(e) == 0 - e
IS_ERR(p) == p < 0

RecIdle == [pc |-> "idle", pfn |-> 0, nid |-> 0, now |-> 0, phi |-> NULL]
KpIdle == [pc |-> "wait", bkt |-> 0, idx |-> 0]
NoSweep == [calls |-> <<>>, done |-> FALSE, fresh |-> FALSE, armed |-> {},
            quiet |-> FALSE, prevCalls |-> 0, prevFailed |-> FALSE]

\* Faulty variant of RemoveAt: hlist_del_init left out.
RemoveNothing(s, i) == s

RemoveAt(s, i) == [j \in 1 .. (Len(s) - 1) |-> IF j < i THEN s[j] ELSE s[j + 1]]

----------------------------------------------------------------------------
\* mm/kpromoted.c

\* Index of the first entry of the bucket with this pfn, NULL when there is none.
RECURSIVE lookup_from(_, _, _)
lookup_from(list, pfn, i) ==
    IF i > Len(list) THEN NULL
    ELSE IF list[i].pfn = pfn THEN i
    ELSE lookup_from(list, pfn, i + 1)

__kpromoted_lookup(pfn, bkt) == lookup_from(page_hotness_hash[bkt], pfn, 1)

\* The record kpromoted_lookup allocates (kzalloc zeroes hot_node).
NewRecord(pfn, now) ==
    [pfn |-> pfn, frequency |-> 1, last_update |-> now, recency |-> now, hot_node |-> 0]

\* Lines 198-213 of kpromoted_record_access on the record phi.
WindowExpired(phi, now) ==
    ulong_sub(phi.last_update, now) > msecs_to_jiffies(KPROMOTED_FREQ_WINDOW)

\* Faulty variant of RecordUpdate: hot_node is set only when a window starts.
RecordUpdateKeepsNode(phi, nid, now) ==
    LET node == IF nid = NUMA_NO_NODE THEN FALLBACK_NODE ELSE nid
    IN  IF WindowExpired(phi, now)
        THEN [phi EXCEPT !.frequency = 1, !.last_update = now, !.recency = now,
                         !.hot_node = node]
        ELSE [phi EXCEPT !.frequency = @ + 1, !.recency = now]

RecordUpdate(phi, nid, now) ==
    LET counted == IF WindowExpired(phi, now)
                   THEN [phi EXCEPT !.frequency = 1, !.last_update = now]
                   ELSE [phi EXCEPT !.frequency = @ + 1]
    IN  [counted EXCEPT !.recency = now,
                        !.hot_node = IF nid = NUMA_NO_NODE THEN FALLBACK_NODE ELSE nid]

\* Faulty variant of RecordFiltered: the test of line 177 left out.
RecordFilteredKindOnly(pfn) == page_kind[pfn] # "lru"

\* The checks of kpromoted_record_access before it takes a lock.
RecordFiltered(pfn) ==
    \/ node_is_toptier(page_nid[pfn])
    \/ page_kind[pfn] \in {"offline", "zone_device"}
    \/ page_kind[pfn] # "lru"

\* page_should_be_promoted, with the reason of a refusal.
PromotionVerdict(phi, now) ==
    IF page_kind[phi.pfn] \in {"offline", "zone_device"} THEN "not_a_page"
    ELSE IF page_kind[phi.pfn] # "lru" THEN "non_lru"
    ELSE IF page_nid[phi.pfn] = phi.hot_node THEN "right_node"
    ELSE IF ulong_sub(now, phi.last_update) > 2 * msecs_to_jiffies(KPROMOTED_FREQ_WINDOW)
         THEN "cold_old"
    ELSE IF phi.frequency < KPRMOTED_FREQ_THRESHOLD THEN "cold_not_accessed"
    ELSE "promote"

\* Faulty variant of page_should_be_promoted: the test of line 59 left out.
page_promoted_at_any_age(phi, now) ==
    PromotionVerdict(phi, phi.last_update) = "promote"

page_should_be_promoted(phi, now) == PromotionVerdict(phi, now) = "promote"

\* What kpromote_page may return: 0 when the folio was moved, 1 otherwise.  Only a
\* folio on the LRU can be isolated and moved.
kpromote_page_results(phi) == IF page_kind[phi.pfn] = "lru" THEN {0, 1} ELSE {1}

\* kpromoted_migrate on one bucket from entry i on, for node n, kpromote_page returning
\* rets[pfn]: the entries that stay, and the calls of kpromote_page in order.
RECURSIVE migrate_list(_, _, _, _)
migrate_list(list, i, n, rets) ==
    IF i > Len(list) THEN [list |-> <<>>, calls |-> <<>>]
    ELSE LET phi == list[i]
             rest == migrate_list(list, i + 1, n, rets)
             ret == IF rets[phi.pfn] \in kpromote_page_results(phi) THEN rets[phi.pfn] ELSE 1
         IN  IF phi.hot_node # n
             THEN [list |-> <<phi>> \o rest.list, calls |-> rest.calls]
             ELSE IF page_should_be_promoted(phi, jiffies)
             THEN [list |-> IF ret = 0 THEN rest.list ELSE <<phi>> \o rest.list,
                   calls |-> <<[pfn |-> phi.pfn, nid |-> phi.hot_node, ret |-> ret]>>
                                \o rest.calls]
             ELSE rest

\* The calls of all buckets, bucket 0 first.
RECURSIVE migrate_calls(_, _, _)
migrate_calls(bkt, n, rets) ==
    IF bkt >= NrBkts THEN <<>>
    ELSE migrate_list(page_hotness_hash[bkt], 1, n, rets).calls
            \o migrate_calls(bkt + 1, n, rets)

\* History: a call of kpromoted_record_access changed the record of pfn.
Touched(pfn) ==
    [n \in CpuNodes |-> [ksweep[n] EXCEPT !.fresh = FALSE, !.quiet = FALSE,
                                          !.armed = @ \ {pfn}]]

\* History: the pages that, when a sweep of node n starts, have had three accesses from
\* n at increasing times within one window, the first no longer than a window ago,
\* while on another node and trackable.
ArmedAt(n) ==
    {p \in Pfns :
        /\ Len(hist[p]) = 3
        /\ \A i \in 1 .. 3 : hist[p][i].nid = n
        /\ hist[p][1].now < hist[p][2].now /\ hist[p][2].now < hist[p][3].now
        /\ hist[p][3].now - hist[p][1].now <= msecs_to_jiffies(KPROMOTED_FREQ_WINDOW)
        /\ jiffies - hist[p][1].now <= msecs_to_jiffies(KPROMOTED_FREQ_WINDOW)
        /\ page_nid[p] # n
        /\ ~RecordFiltered(p)}

\* History: the sweep of node n that starts now, after the one ksweep[n] tells of.
SweepBegun(n) ==
    [calls |-> <<>>, done |-> FALSE, fresh |-> TRUE, armed |-> ArmedAt(n),
     quiet |-> ksweep[n].done /\ ksweep[n].fresh,
     prevCalls |-> Len(ksweep[n].calls),
     prevFailed |-> \E i \in DOMAIN ksweep[n].calls : ksweep[n].calls[i].ret # 0]

----------------------------------------------------------------------------
\* Whole operations, one at a time (SpecTable).  Allocations succeed.

\* kpromoted_record_access(pfn, nid, src, now)
RecordAccess(pfn, nid, now) ==
    /\ budget.calls < lim.calls
    /\ pfn \in lim.pfns
    /\ now <= jiffies /\ jiffies - now <= lim.lag
    /\ budget' = [budget EXCEPT !.calls = @ + 1]
    /\ IF RecordFiltered(pfn)
       THEN UNCHANGED <<page_hotness_hash, hist, ksweep>>
       ELSE LET bkt == hash_min(pfn)
                found == __kpromoted_lookup(pfn, bkt)
                list == IF found = NULL
                        THEN <<NewRecord(pfn, now)>> \o page_hotness_hash[bkt]
                        ELSE page_hotness_hash[bkt]
                phi == IF found = NULL THEN 1 ELSE found
            IN  /\ page_hotness_hash' = [page_hotness_hash EXCEPT
                        ![bkt] = [list EXCEPT ![phi] = RecordUpdate(@, nid, now)]]
                /\ hist' = [hist EXCEPT ![pfn] =
                        Append(IF found = NULL THEN <<>> ELSE @, [nid |-> nid, now |-> now])]
                /\ ksweep' = Touched(pfn)
    /\ UNCHANGED <<page_hotness_lock, page_nid, page_kind, jiffies, rec, kp, lim>>
    /\ UNCHANGED notTable

\* Faulty variant of Sweep: the records are classified and kpromote_page is called, but
\* nothing moves and no record leaves the table.
SweepReadOnly(n, rets) ==
    /\ budget.sweeps < lim.sweeps
    /\ budget' = [budget EXCEPT !.sweeps = @ + 1]
    /\ ksweep' = [ksweep EXCEPT ![n] =
            [SweepBegun(n) EXCEPT !.calls = migrate_calls(0, n, rets), !.done = TRUE]]
    /\ UNCHANGED <<page_hotness_hash, page_hotness_lock, page_nid, page_kind, jiffies,
                   rec, kp, hist, lim>>
    /\ UNCHANGED notTable

\* One iteration of kpromoted's loop for node n: kpromoted_migrate, with kpromote_page
\* returning rets[pfn] for the page pfn.
Sweep(n, rets) ==
    /\ budget.sweeps < lim.sweeps
    /\ budget' = [budget EXCEPT !.sweeps = @ + 1]
    /\ LET swept == [b \in Bkts |-> migrate_list(page_hotness_hash[b], 1, n, rets)]
           calls == migrate_calls(0, n, rets)
           moved == {calls[i].pfn : i \in {j \in DOMAIN calls : calls[j].ret = 0}}
       IN  /\ page_hotness_hash' = [b \in Bkts |-> swept[b].list]
           /\ page_nid' = [p \in Pfns |-> IF p \in moved THEN n ELSE page_nid[p]]
           /\ hist' = [p \in Pfns |->
                    IF \E i \in DOMAIN swept[hash_min(p)].list :
                            swept[hash_min(p)].list[i].pfn = p
                    THEN hist[p] ELSE <<>>]
           /\ ksweep' = [ksweep EXCEPT ![n] =
                    [SweepBegun(n) EXCEPT !.calls = calls, !.done = TRUE]]
    /\ UNCHANGED <<page_hotness_lock, page_kind, jiffies, rec, kp, lim>>
    /\ UNCHANGED notTable

----------------------------------------------------------------------------
\* kpromoted_record_access step by step, one caller t (SpecTableConc)

\* The call and its arguments.  The sample was taken at the clock's time or up to
\* lim.lag ticks earlier.  Callers are interchangeable: the lowest idle one calls.
RecordAccessCall(t, pfn, nid, now) ==
    /\ rec[t].pc = "idle"
    /\ budget.calls < lim.calls
    /\ \A u \in Recorders : u < t => rec[u].pc # "idle"
    /\ pfn \in lim.pfns
    /\ now <= jiffies /\ jiffies - now <= lim.lag
    /\ rec' = [rec EXCEPT ![t] = [pc |-> "filter", pfn |-> pfn, nid |-> nid,
                                  now |-> now, phi |-> NULL]]
    /\ budget' = [budget EXCEPT !.calls = @ + 1]
    /\ UNCHANGED <<page_hotness_hash, page_hotness_lock, page_nid, page_kind, jiffies,
                   kp, hist, ksweep, lim>>
    /\ UNCHANGED notTable

\* Lines 177-190: return 0 for a page of the top tier or one that is not tracked.
RecordAccessFilter(t) ==
    /\ rec[t].pc = "filter"
    /\ rec' = [rec EXCEPT ![t] = IF RecordFiltered(rec[t].pfn)
                                 THEN RecIdle
                                 ELSE [@ EXCEPT !.pc = "lock"]]
    /\ UNCHANGED <<page_hotness_hash, page_hotness_lock, page_nid, page_kind, jiffies,
                   kp, hist, ksweep, budget, lim>>
    /\ UNCHANGED notTable

\* Faulty variant of MutexFree: a mutex that excludes nobody.
MutexAlwaysFree(bkt) == TRUE

\* mutex_lock returns once the mutex is free.
MutexFree(bkt) == page_hotness_lock[bkt] = NoOwner

\* Line 191: mutex_lock
RecordAccessLock(t) ==
    /\ rec[t].pc = "lock"
    /\ MutexFree(hash_min(rec[t].pfn))
    /\ page_hotness_lock' = [page_hotness_lock EXCEPT ![hash_min(rec[t].pfn)] = RecTask(t)]
    /\ rec' = [rec EXCEPT ![t].pc = "lookup"]
    /\ UNCHANGED <<page_hotness_hash, page_nid, page_kind, jiffies, kp, hist, ksweep,
                   budget, lim>>
    /\ UNCHANGED notTable

\* Line 130: __kpromoted_lookup
RecordAccessLookup(t) ==
    /\ rec[t].pc = "lookup"
    /\ LET phi == __kpromoted_lookup(rec[t].pfn, hash_min(rec[t].pfn))
       IN  rec' = [rec EXCEPT ![t].phi = phi,
                              ![t].pc = IF phi = NULL THEN "alloc" ELSE "update"]
    /\ UNCHANGED <<page_hotness_hash, page_hotness_lock, page_nid, page_kind, jiffies,
                   kp, hist, ksweep, budget, lim>>
    /\ UNCHANGED notTable

\* Lines 132-141: kzalloc succeeded, the new record goes to the head of the bucket.
RecordAccessAlloc(t) ==
    /\ rec[t].pc = "alloc"
    /\ LET bkt == hash_min(rec[t].pfn)
       IN  page_hotness_hash' = [page_hotness_hash EXCEPT
                ![bkt] = <<NewRecord(rec[t].pfn, rec[t].now)>> \o @]
    /\ rec' = [rec EXCEPT ![t].phi = 1, ![t].pc = "update"]
    /\ UNCHANGED <<page_hotness_lock, page_nid, page_kind, jiffies, kp, hist, ksweep,
                   budget, lim>>
    /\ UNCHANGED notTable

\* Lines 133-134 and 193-198: kzalloc failed, kpromoted_lookup returns ERR_PTR(-ENOMEM),
\* which is not NULL, so line 198 reads through it: the task oopses with the mutex held.
RecordAccessAllocFail(t) ==
    /\ rec[t].pc = "alloc"
    /\ rec' = [rec EXCEPT ![t].phi = ERR_PTR(ENOMEM), ![t].pc = "oops"]
    /\ UNCHANGED <<page_hotness_hash, page_hotness_lock, page_nid, page_kind, jiffies,
                   kp, hist, ksweep, budget, lim>>
    /\ UNCHANGED notTable

\* Lines 198-213
RecordAccessUpdate(t) ==
    /\ rec[t].pc = "update"
    /\ LET bkt == hash_min(rec[t].pfn)
           i == rec[t].phi
       IN  /\ i \in DOMAIN page_hotness_hash[bkt]
           /\ page_hotness_hash' = [page_hotness_hash EXCEPT
                ![bkt][i] = RecordUpdate(@, rec[t].nid, rec[t].now)]
    /\ rec' = [rec EXCEPT ![t].pc = "unlock"]
    /\ UNCHANGED <<page_hotness_lock, page_nid, page_kind, jiffies, kp, hist, ksweep,
                   budget, lim>>
    /\ UNCHANGED notTable

\* Line 214: mutex_unlock, return 0
RecordAccessUnlock(t) ==
    /\ rec[t].pc = "unlock"
    /\ page_hotness_lock' = [page_hotness_lock EXCEPT ![hash_min(rec[t].pfn)] = NoOwner]
    /\ rec' = [rec EXCEPT ![t] = RecIdle]
    /\ UNCHANGED <<page_hotness_hash, page_nid, page_kind, jiffies, kp, hist, ksweep,
                   budget, lim>>
    /\ UNCHANGED notTable

----------------------------------------------------------------------------
\* kpromoted_migrate step by step, the thread of node n (SpecTableConc)

\* Lines 244-247 and 82-88: the wait is over, the sweep starts at bucket 0.
SweepStart(n) ==
    /\ kp[n].pc = "wait"
    /\ budget.sweeps < lim.sweeps
    /\ kp' = [kp EXCEPT ![n] = [pc |-> "lock", bkt |-> 0, idx |-> 0]]
    /\ budget' = [budget EXCEPT !.sweeps = @ + 1]
    /\ ksweep' = [ksweep EXCEPT ![n] = NoSweep]
    /\ UNCHANGED <<page_hotness_hash, page_hotness_lock, page_nid, page_kind, jiffies,
                   rec, hist, lim>>
    /\ UNCHANGED notTable

\* Line 89: mutex_lock
SweepLock(n) ==
    /\ kp[n].pc = "lock"
    /\ MutexFree(kp[n].bkt)
    /\ page_hotness_lock' = [page_hotness_lock EXCEPT ![kp[n].bkt] = KpTask(n)]
    /\ kp' = [kp EXCEPT ![n].pc = "scan", ![n].idx = 1]
    /\ UNCHANGED <<page_hotness_hash, page_nid, page_kind, jiffies, rec, hist, ksweep,
                   budget, lim>>
    /\ UNCHANGED notTable

\* Faulty variant of SweepScan: the test of line 91 left out.
SweepScanAllNodes(n) ==
    /\ kp[n].pc = "scan"
    /\ LET bkt == kp[n].bkt
           i == kp[n].idx
           list == page_hotness_hash[bkt]
       IN  IF i > Len(list)
           THEN /\ kp' = [kp EXCEPT ![n].pc = "unlock"]
                /\ UNCHANGED page_hotness_hash
           ELSE IF page_should_be_promoted(list[i], jiffies)
           THEN /\ kp' = [kp EXCEPT ![n].pc = "migrate"]
                /\ UNCHANGED page_hotness_hash
           ELSE /\ page_hotness_hash' = [page_hotness_hash EXCEPT ![bkt] = RemoveAt(list, i)]
                /\ UNCHANGED kp
    /\ UNCHANGED <<page_hotness_lock, page_nid, page_kind, jiffies, rec, hist, ksweep,
                   budget, lim>>
    /\ UNCHANGED notTable

\* Lines 90-109: one entry of the bucket.
SweepScan(n) ==
    /\ kp[n].pc = "scan"
    /\ LET bkt == kp[n].bkt
           i == kp[n].idx
           list == page_hotness_hash[bkt]
       IN  IF i > Len(list)
           THEN /\ kp' = [kp EXCEPT ![n].pc = "unlock"]
                /\ UNCHANGED page_hotness_hash
           ELSE IF list[i].hot_node # n
           THEN /\ kp' = [kp EXCEPT ![n].idx = i + 1]
                /\ UNCHANGED page_hotness_hash
           ELSE IF page_should_be_promoted(list[i], jiffies)
           THEN /\ kp' = [kp EXCEPT ![n].pc = "migrate"]
                /\ UNCHANGED page_hotness_hash
           ELSE /\ page_hotness_hash' = [page_hotness_hash EXCEPT ![bkt] = RemoveAt(list, i)]
                /\ UNCHANGED kp
    /\ UNCHANGED <<page_hotness_lock, page_nid, page_kind, jiffies, rec, hist, ksweep,
                   budget, lim>>
    /\ UNCHANGED notTable

\* Faulty variant of SweepMigrate: after a failure the scan stays at the record.
SweepMigrateStays(n, ret) ==
    /\ kp[n].pc = "migrate"
    /\ LET bkt == kp[n].bkt
           i == kp[n].idx
           list == page_hotness_hash[bkt]
           phi == list[i]
       IN  /\ ret \in kpromote_page_results(phi)
           /\ ksweep' = [ksweep EXCEPT ![n].calls =
                            Append(@, [pfn |-> phi.pfn, nid |-> phi.hot_node, ret |-> ret])]
           /\ Len(ksweep[n].calls) < 2
           /\ IF ret = 0
              THEN /\ page_nid' = [page_nid EXCEPT ![phi.pfn] = phi.hot_node]
                   /\ page_hotness_hash' = [page_hotness_hash EXCEPT
                        ![bkt] = RemoveAt(list, i)]
              ELSE UNCHANGED <<page_nid, page_hotness_hash>>
           /\ kp' = [kp EXCEPT ![n].pc = "scan"]
    /\ UNCHANGED <<page_hotness_lock, page_kind, jiffies, rec, hist, budget, lim>>
    /\ UNCHANGED notTable

\* Lines 96-100: kpromote_page returns ret.
SweepMigrate(n, ret) ==
    /\ kp[n].pc = "migrate"
    /\ LET bkt == kp[n].bkt
           i == kp[n].idx
           list == page_hotness_hash[bkt]
           phi == list[i]
       IN  /\ ret \in kpromote_page_results(phi)
           /\ ksweep' = [ksweep EXCEPT ![n].calls =
                            Append(@, [pfn |-> phi.pfn, nid |-> phi.hot_node, ret |-> ret])]
           /\ IF ret = 0
              THEN /\ page_nid' = [page_nid EXCEPT ![phi.pfn] = phi.hot_node]
                   /\ page_hotness_hash' = [page_hotness_hash EXCEPT
                        ![bkt] = RemoveAt(list, i)]
                   /\ kp' = [kp EXCEPT ![n].pc = "scan"]
              ELSE /\ kp' = [kp EXCEPT ![n].pc = "scan", ![n].idx = i + 1]
                   /\ UNCHANGED <<page_nid, page_hotness_hash>>
    /\ UNCHANGED <<page_hotness_lock, page_kind, jiffies, rec, hist, budget, lim>>
    /\ UNCHANGED notTable

\* Faulty variant of SweepUnlock: the sweep goes on without mutex_unlock.
SweepKeepsLock(n) ==
    /\ kp[n].pc = "unlock"
    /\ IF kp[n].bkt + 1 < NrBkts
       THEN /\ kp' = [kp EXCEPT ![n].pc = "lock", ![n].bkt = @ + 1, ![n].idx = 0]
            /\ UNCHANGED ksweep
       ELSE /\ kp' = [kp EXCEPT ![n] = KpIdle]
            /\ ksweep' = [ksweep EXCEPT ![n].done = TRUE]
    /\ UNCHANGED <<page_hotness_hash, page_hotness_lock, page_nid, page_kind, jiffies,
                   rec, hist, budget, lim>>
    /\ UNCHANGED notTable

\* Lines 111 and 88: mutex_unlock, next bucket; after the last one the sweep is over.
SweepUnlock(n) ==
    /\ kp[n].pc = "unlock"
    /\ page_hotness_lock' = [page_hotness_lock EXCEPT ![kp[n].bkt] = NoOwner]
    /\ IF kp[n].bkt + 1 < NrBkts
       THEN /\ kp' = [kp EXCEPT ![n].pc = "lock", ![n].bkt = @ + 1, ![n].idx = 0]
            /\ UNCHANGED ksweep
       ELSE /\ kp' = [kp EXCEPT ![n] = KpIdle]
            /\ ksweep' = [ksweep EXCEPT ![n].done = TRUE]
    /\ UNCHANGED <<page_hotness_hash, page_nid, page_kind, jiffies, rec, hist, budget,
                   lim>>
    /\ UNCHANGED notTable

----------------------------------------------------------------------------
\* The kpromoted threads from kpromoted_init on (SpecSweeper)

KthreadTask(t) == <<"kthread", t>>

\* Every call of kthread_run may create a thread.
KthreadIds == 1 .. (Cardinality(CpuNodes) + MaxRuns)

\* No thread yet: the state before kpromoted_init.  init is history: how kpromoted_init
\* ended; runs counts the later calls of kpromoted_run, last tells of the last of them:
\* its node and whether kthread_run could create a task.
NoKthreads ==
    [pgdat |-> [n \in CpuNodes |-> NULL], tasks |-> <<>>, init |-> "none", runs |-> 0,
     last |-> [nid |-> 0, ok |-> FALSE]]

\* A thread kthread_run has just created for node nid: about to test
\* kthread_should_stop.  waited and swept are history of the present iteration.
NewKthread(nid) ==
    [nid |-> nid, pc |-> "loop", bkt |-> 0, should_stop |-> FALSE, left |-> 0,
     waited |-> FALSE, swept |-> {}]

\* kthread_run: the new task, or ERR_PTR(-ENOMEM) when the task cannot be created.
kthread_run(st, nid, ok) ==
    IF ok
    THEN [st |-> [st EXCEPT !.tasks = Append(@, NewKthread(nid))],
          ret |-> Len(st.tasks) + 1]
    ELSE [st |-> st, ret |-> ERR_PTR(ENOMEM)]

\* Faulty variant of kpromoted_run: the test of line 256 left out.
kpromoted_run_again(st, nid, ok) ==
    LET r == kthread_run(st, nid, ok)
    IN  [r.st EXCEPT !.pgdat[nid] = IF IS_ERR(r.ret) THEN NULL ELSE r.ret]

kpromoted_run(st, nid, ok) ==
    IF st.pgdat[nid] # NULL THEN st
    ELSE LET r == kthread_run(st, nid, ok)
             set == [r.st EXCEPT !.pgdat[nid] = r.ret]
         IN  IF IS_ERR(set.pgdat[nid]) THEN [set EXCEPT !.pgdat[nid] = NULL] ELSE set

\* Lines 299-300: kpromoted_run for the nodes from nid on, kthread_run succeeding for
\* the nodes of oks.
RECURSIVE run_nodes(_, _, _)
run_nodes(st, nid, oks) ==
    IF nid \notin CpuNodes THEN st
    ELSE run_nodes(kpromoted_run(st, nid, nid \in oks), nid + 1, oks)

\* kpromoted_init, cpuhp_setup_state_nocalls returning ret.
KpromotedInit(ret, oks) ==
    /\ kthreads.init = "none"
    /\ IF ret < 0
       THEN /\ kthreads' = [kthreads EXCEPT !.init = "failed"]
            /\ UNCHANGED page_hotness_lock
       ELSE /\ page_hotness_lock' = [b \in Bkts |-> NoOwner]
            /\ kthreads' = [run_nodes(kthreads, 0, oks) EXCEPT !.init = "done"]
    /\ UNCHANGED <<page_hotness_hash, page_nid, page_kind, jiffies, rec, kp, hist, ksweep,
                   budget, lim>>
    /\ UNCHANGED notSweeper

\* kpromoted_run(nid) called once more.  kpromoted_init is its one caller in the file;
\* this is the call a later caller would make.
KpromotedRun(nid, ok) ==
    /\ kthreads.init = "done"
    /\ kthreads.runs < MaxRuns
    /\ kthreads' = [kpromoted_run(kthreads, nid, ok) EXCEPT
                        !.runs = @ + 1, !.last = [nid |-> nid, ok |-> ok]]
    /\ UNCHANGED tableVars
    /\ UNCHANGED notSweeper

\* kthread_stop(task) as far as the thread sees it: KTHREAD_SHOULD_STOP is set and the
\* thread is woken.  A thread woken in wait_event_timeout finds its condition false and
\* sleeps on for the time that is left.
KthreadStop(t) ==
    /\ t \in DOMAIN kthreads.tasks
    /\ kthreads.tasks[t].pc # "exited"
    /\ ~kthreads.tasks[t].should_stop
    /\ kthreads' = [kthreads EXCEPT !.tasks[t].should_stop = TRUE]
    /\ UNCHANGED tableVars
    /\ UNCHANGED notSweeper

\* Lines 244-246 and 249: the test of the loop; the thread returns, or it starts to wait
\* for the timeout.
KpromotedLoop(t) ==
    /\ t \in DOMAIN kthreads.tasks
    /\ kthreads.tasks[t].pc = "loop"
    /\ kthreads' = [kthreads EXCEPT !.tasks[t] =
            IF @.should_stop
            THEN [@ EXCEPT !.pc = "exited"]
            ELSE [@ EXCEPT !.pc = "wait", !.left = msecs_to_jiffies(KPROMOTE_DELAY),
                           !.waited = FALSE, !.swept = {}]]
    /\ UNCHANGED tableVars
    /\ UNCHANGED notSweeper

\* wait_event_timeout: a tick passes.  kpromoted_work_requested is false always.
KpromotedSleep(t) ==
    /\ t \in DOMAIN kthreads.tasks
    /\ kthreads.tasks[t].pc = "wait"
    /\ kthreads.tasks[t].left > 0
    /\ kthreads' = [kthreads EXCEPT !.tasks[t].left = @ - 1]
    /\ UNCHANGED tableVars
    /\ UNCHANGED notSweeper

\* Lines 247, 222 and 82-88: the timeout has passed, kpromoted_migrate starts at
\* bucket 0.
KpromotedWake(t) ==
    /\ t \in DOMAIN kthreads.tasks
    /\ kthreads.tasks[t].pc = "wait"
    /\ kthreads.tasks[t].left = 0
    /\ kthreads' = [kthreads EXCEPT !.tasks[t] =
            [@ EXCEPT !.pc = "lock", !.bkt = 0, !.waited = TRUE]]
    /\ UNCHANGED tableVars
    /\ UNCHANGED notSweeper

\* Line 89: mutex_lock
KpromotedLock(t) ==
    /\ t \in DOMAIN kthreads.tasks
    /\ kthreads.tasks[t].pc = "lock"
    /\ MutexFree(kthreads.tasks[t].bkt)
    /\ page_hotness_lock' =
            [page_hotness_lock EXCEPT ![kthreads.tasks[t].bkt] = KthreadTask(t)]
    /\ kthreads' = [kthreads EXCEPT !.tasks[t].pc = "bucket"]
    /\ UNCHANGED <<page_hotness_hash, page_nid, page_kind, jiffies, rec, kp, hist, ksweep,
                   budget, lim>>
    /\ UNCHANGED notSweeper

\* Lines 90-110: the entries of the bucket, kpromote_page returning rets[pfn].
KpromotedBucket(t, rets) ==
    /\ t \in DOMAIN kthreads.tasks
    /\ kthreads.tasks[t].pc = "bucket"
    /\ LET bkt == kthreads.tasks[t].bkt
           nid == kthreads.tasks[t].nid
           swept == migrate_list(page_hotness_hash[bkt], 1, nid, rets)
           moved == {swept.calls[i].pfn :
                        i \in {j \in DOMAIN swept.calls : swept.calls[j].ret = 0}}
       IN  /\ page_hotness_hash' = [page_hotness_hash EXCEPT ![bkt] = swept.list]
           /\ page_nid' = [p \in Pfns |-> IF p \in moved THEN nid ELSE page_nid[p]]
    /\ kthreads' = [kthreads EXCEPT !.tasks[t].pc = "unlock"]
    /\ UNCHANGED <<page_hotness_lock, page_kind, jiffies, rec, kp, hist, ksweep, budget,
                   lim>>
    /\ UNCHANGED notSweeper

\* Faulty variant of KpromotedUnlock: the thread returns when it is to stop.
KpromotedUnlockOrReturn(t) ==
    /\ t \in DOMAIN kthreads.tasks
    /\ kthreads.tasks[t].pc = "unlock"
    /\ LET bkt == kthreads.tasks[t].bkt
       IN  /\ page_hotness_lock' = [page_hotness_lock EXCEPT ![bkt] = NoOwner]
           /\ kthreads' = [kthreads EXCEPT !.tasks[t] =
                    IF @.should_stop
                    THEN [@ EXCEPT !.pc = "exited", !.swept = @ \union {bkt}]
                    ELSE IF bkt + 1 < NrBkts
                    THEN [@ EXCEPT !.pc = "lock", !.bkt = bkt + 1,
                                   !.swept = @ \union {bkt}]
                    ELSE [@ EXCEPT !.pc = "loop", !.swept = @ \union {bkt}]]
    /\ UNCHANGED <<page_hotness_hash, page_nid, page_kind, jiffies, rec, kp, hist, ksweep,
                   budget, lim>>
    /\ UNCHANGED notSweeper

\* Lines 111 and 88: mutex_unlock, next bucket; after the last one kpromoted_do_work
\* returns to the loop.
KpromotedUnlock(t) ==
    /\ t \in DOMAIN kthreads.tasks
    /\ kthreads.tasks[t].pc = "unlock"
    /\ LET bkt == kthreads.tasks[t].bkt
       IN  /\ page_hotness_lock' = [page_hotness_lock EXCEPT ![bkt] = NoOwner]
           /\ kthreads' = [kthreads EXCEPT !.tasks[t] =
                    IF bkt + 1 < NrBkts
                    THEN [@ EXCEPT !.pc = "lock", !.bkt = bkt + 1,
                                   !.swept = @ \union {bkt}]
                    ELSE [@ EXCEPT !.pc = "loop", !.swept = @ \union {bkt}]]
    /\ UNCHANGED <<page_hotness_hash, page_nid, page_kind, jiffies, rec, kp, hist, ksweep,
                   budget, lim>>
    /\ UNCHANGED notSweeper

----------------------------------------------------------------------------
\* The world around the table

\* dt ticks pass.
Tick(dt) ==
    /\ dt \in lim.dts
    /\ jiffies + dt <= MaxJiffies
    /\ budget.ticks < lim.ticks
    /\ jiffies' = jiffies + dt
    /\ budget' = [budget EXCEPT !.ticks = @ + 1]
    /\ UNCHANGED <<page_hotness_hash, page_hotness_lock, page_nid, page_kind, rec, kp,
                   hist, ksweep, lim>>
    /\ UNCHANGED notTable

\* A page moves to another node or changes kind (offlined, isolated from the LRU, ...).
PageChange(pfn, nid, kind) ==
    /\ budget.env < lim.env
    /\ pfn \in EnvPfns
    /\ (nid # page_nid[pfn]) # (kind # page_kind[pfn])
    /\ page_nid' = [page_nid EXCEPT ![pfn] = nid]
    /\ page_kind' = [page_kind EXCEPT ![pfn] = kind]
    /\ budget' = [budget EXCEPT !.env = @ + 1]
    /\ UNCHANGED <<page_hotness_hash, page_hotness_lock, jiffies, rec, kp, hist, ksweep,
                   lim>>
    /\ UNCHANGED notTable

----------------------------------------------------------------------------
\* IBS access profiling: the per-cpu ring of samples

Slots == 0 .. (IBS_NR_SAMPLES - 1)
SamplePfns == {0, 1}
SampleNids == {1}                    \* numa_node_id() of the ring's cpu

\* alloc_percpu_gfp(..., __GFP_ZERO)
ZeroSample == [pfn |-> 0, time |-> 0, nid |-> 0]

PopIdle == [pc |-> "idle", next |-> 0, s |-> ZeroSample, copied |-> FALSE,
            advanced |-> FALSE, slot |-> 0]

\* Lines 54-57 and 72, 77-78: the index after i.
ring_next(i) == IF i + 1 >= IBS_NR_SAMPLES THEN 0 ELSE i + 1

\* Faulty variant of ring_full: the test of line 59 left out.
ring_never_full(head, tail) == FALSE

\* Line 59
ring_full(head, tail) == ring_next(head) = tail

\* Faulty variant of ring_empty: the test of line 74 left out.
ring_never_empty(head, tail) == FALSE

\* Line 74
ring_empty(head, tail) == head = tail

\* Faulty variant of sample_not_stored: the work is queued for a dropped sample too.
sample_not_stored_queued(g) == [g EXCEPT !.dropped = @ + 1, !.queued = @ + 1]

\* Lines 253-256 of ibs_overflow_handler: ibs_push_sample returned 0, the event
\* HWHINT_BUFFER_FULL is counted and the handler is done.
sample_not_stored(g) == [g EXCEPT !.dropped = @ + 1]

\* Lines 258-259 of ibs_overflow_handler: the sample is stored, irq_work_queue.
sample_stored(g, sample) == [g EXCEPT !.accepted = Append(@, sample), !.queued = @ + 1]

\* ibs_push_sample(pfn, nid, time) and what ibs_overflow_handler does with its result.
\* Called from the NMI handler: it runs to its end between any two steps of the work
\* handler on this cpu.
ibs_push_sample(pfn, nid, time) ==
    /\ Len(ibs_g.pushed) < MaxPush
    /\ LET sample == [pfn |-> pfn, time |-> time, nid |-> nid]
           g == [ibs_g EXCEPT !.pushed = Append(@, sample),
                              !.preempted = @ \/ pop.pc # "idle"]
       IN  IF ring_full(ibs_head, ibs_tail)
           THEN /\ ibs_g' = sample_not_stored(g)
                /\ UNCHANGED <<ibs_samples, ibs_head>>
           ELSE /\ ibs_samples' = [ibs_samples EXCEPT ![ibs_head].pfn = pfn,
                                                      ![ibs_head].time = time]
                /\ ibs_head' = ring_next(ibs_head)
                /\ ibs_g' = [sample_stored(g, sample) EXCEPT !.written = @ \cup {ibs_head}]
    /\ UNCHANGED <<ibs_tail, pop>>
    /\ UNCHANGED notRing

\* ibs_pop_sample, line 72: next = tail + 1.  The first pop ends the opening burst.
PopBegin ==
    /\ pop.pc = "idle"
    /\ pop' = [PopIdle EXCEPT !.pc = "check", !.next = ibs_tail + 1, !.slot = ibs_tail]
    /\ ibs_g' = IF ibs_g.burst.open
                THEN [ibs_g EXCEPT !.burst = [n |-> Len(ibs_g.pushed),
                                              dropped |-> ibs_g.dropped, open |-> FALSE]]
                ELSE ibs_g
    /\ UNCHANGED <<ibs_samples, ibs_head, ibs_tail>>
    /\ UNCHANGED notRing

\* Lines 74-78: return 0 on an empty ring, else wrap next.
PopCheck ==
    /\ pop.pc = "check"
    /\ IF ring_empty(ibs_head, ibs_tail)
       THEN pop' = PopIdle
       ELSE pop' = [pop EXCEPT !.pc = "body", !.next = ring_next(ibs_tail)]
    /\ UNCHANGED <<ibs_samples, ibs_head, ibs_tail, ibs_g>>
    /\ UNCHANGED notRing

\* Line 80: *s = samples[tail].  Nothing orders lines 80 and 81 for the compiler, so
\* the copy may also come after the store to tail; it reads the slot tail named.
PopCopy ==
    /\ pop.pc = "body" /\ ~pop.copied
    /\ pop' = [pop EXCEPT !.s = ibs_samples[pop.slot], !.copied = TRUE]
    /\ ibs_g' = [ibs_g EXCEPT !.unwritten = @ \/ pop.slot \notin ibs_g.written]
    /\ UNCHANGED <<ibs_samples, ibs_head, ibs_tail>>
    /\ UNCHANGED notRing

\* Line 81: tail = next
PopAdvance ==
    /\ pop.pc = "body" /\ ~pop.advanced
    /\ ibs_tail' = pop.next
    /\ pop' = [pop EXCEPT !.advanced = TRUE]
    /\ UNCHANGED <<ibs_samples, ibs_head, ibs_g>>
    /\ UNCHANGED notRing

\* Line 82: return 1; ibs_work_handler hands the sample to kpromoted_record_access.
PopReturn ==
    /\ pop.pc = "body" /\ pop.copied /\ pop.advanced
    /\ ibs_g' = [ibs_g EXCEPT !.popped = Append(@, pop.s)]
    /\ pop' = PopIdle
    /\ UNCHANGED <<ibs_samples, ibs_head, ibs_tail>>
    /\ UNCHANGED notRing

\* The cpus of the rings of the several-cpu specification.
Cpus == {0, 1}
NoCpu == -1

\* ibs_s of one cpu, zeroed by alloc_percpu_gfp (line 319).
RingZero == [samples |-> [i \in Slots |-> ZeroSample], head |-> 0, tail |-> 0]

\* ibs_s of every cpu; ibs_irq_work with its IRQ_WORK_PENDING flag and the cpu whose
\* list it is on; ibs_work with its WORK_STRUCT_PENDING bit, the cpu whose pool it is
\* queued on and the cpu whose worker runs it; where each cpu is in irq_work_run; and
\* history: the samples each cpu accepted and the ones handed to
\* kpromoted_record_access, and the number of NMIs.
CpusIdle ==
    [ring |-> [c \in Cpus |-> RingZero],
     irq_work |-> [pending |-> FALSE, list |-> NoCpu],
     irq |-> [c \in Cpus |-> "idle"],
     work |-> [pending |-> FALSE, pool |-> NoCpu, running |-> NoCpu],
     accepted |-> [c \in Cpus |-> <<>>],
     applied |-> [c \in Cpus |-> <<>>],
     declined |-> [irq_work |-> 0, work |-> 0],
     nmis |-> 0]

InitRingState ==
    /\ ibs_cpus = CpusIdle
    /\ ibs_samples = [i \in Slots |-> ZeroSample]
    /\ ibs_head = 0
    /\ ibs_tail = 0
    /\ pop = PopIdle
    /\ ibs_g = [pushed |-> <<>>, accepted |-> <<>>, popped |-> <<>>, dropped |-> 0,
                queued |-> 0, written |-> {}, unwritten |-> FALSE, preempted |-> FALSE,
                burst |-> [n |-> 0, dropped |-> 0, open |-> TRUE]]

NextRing ==
    \/ \E pfn \in SamplePfns, nid \in SampleNids :
            ibs_push_sample(pfn, nid, Len(ibs_g.pushed) + 1)
    \/ PopBegin
    \/ PopCheck
    \/ PopCopy
    \/ PopAdvance
    \/ PopReturn

----------------------------------------------------------------------------
\* IBS access profiling on several cpus: one ring per cpu, and the one irq_work and
\* the one work item all cpus share (lines 39-45)

\* irq_work_queue(&ibs_irq_work) on cpu c: nothing if the irq_work is pending already,
\* wherever it is queued; else it is claimed and put on the list of cpu c.
irq_work_queue(st, c) ==
    IF st.irq_work.pending
    THEN [st EXCEPT !.declined.irq_work = 1]
    ELSE [st EXCEPT !.irq_work = [pending |-> TRUE, list |-> c]]

\* schedule_work_on(cpu, &ibs_work): nothing if the work is pending already; else it is
\* queued on the pool of cpu, or on the pool whose worker is running it at the moment.
schedule_work_on(st, cpu) ==
    IF st.work.pending
    THEN [st EXCEPT !.declined.work = 1]
    ELSE [st EXCEPT !.work.pending = TRUE,
                    !.work.pool = IF st.work.running # NoCpu THEN st.work.running
                                  ELSE cpu]

\* Lines 51-67 on the ring of the cpu that runs them (raw_cpu_ptr).
push_sample_on(r, pfn, time) ==
    [r EXCEPT !.samples[r.head].pfn = pfn, !.samples[r.head].time = time,
              !.head = ring_next(r.head)]

\* Lines 69-83 on the ring of the cpu that runs them.
pop_sample_on(r) == [r EXCEPT !.tail = ring_next(r.tail)]

\* ibs_overflow_handler on cpu c, lines 253-259: the sample is pushed on this cpu's
\* ring and, if it was stored, the irq_work is queued.
ibs_overflow_handler(c, pfn) ==
    /\ ibs_cpus.nmis < MaxNmis
    /\ LET r == ibs_cpus.ring[c]
           time == ibs_cpus.nmis + 1
           st == [ibs_cpus EXCEPT !.nmis = @ + 1]
       IN  IF ring_full(r.head, r.tail)
           THEN ibs_cpus' = st
           ELSE ibs_cpus' =
                    irq_work_queue(
                        [st EXCEPT !.ring[c] = push_sample_on(r, pfn, time),
                                   !.accepted[c] =
                                        Append(@, [pfn |-> pfn, time |-> time])],
                        c)
    /\ UNCHANGED notCpus

\* irq_work_run on cpu c finds the irq_work on its list: it takes it off, clears the
\* pending flag and goes on to call its function.
irq_work_run(c) ==
    /\ ibs_cpus.irq_work.pending
    /\ ibs_cpus.irq_work.list = c
    /\ ibs_cpus.irq[c] = "idle"
    /\ ibs_cpus' = [ibs_cpus EXCEPT !.irq_work = [pending |-> FALSE, list |-> NoCpu],
                                    !.irq[c] = "func"]
    /\ UNCHANGED notCpus

\* ibs_irq_handler on cpu c, lines 98-101.
ibs_irq_handler(c) ==
    /\ ibs_cpus.irq[c] = "func"
    /\ ibs_cpus' = schedule_work_on([ibs_cpus EXCEPT !.irq[c] = "idle"], c)
    /\ UNCHANGED notCpus

\* A worker of the pool of cpu c takes the work: it clears the pending bit and calls
\* ibs_work_handler.
process_one_work(c) ==
    /\ ibs_cpus.work.pending
    /\ ibs_cpus.work.pool = c
    /\ ibs_cpus.work.running = NoCpu
    /\ ibs_cpus' = [ibs_cpus EXCEPT !.work = [pending |-> FALSE, pool |-> NoCpu,
                                              running |-> c]]
    /\ UNCHANGED notCpus

\* ibs_work_handler, lines 89-96, one turn of its loop on the cpu whose worker runs
\* it: a sample of this cpu's ring is popped and handed to kpromoted_record_access,
\* or the ring is empty and the handler returns.
ibs_work_handler(c) ==
    /\ ibs_cpus.work.running = c
    /\ LET r == ibs_cpus.ring[c]
       IN  IF ring_empty(r.head, r.tail)
           THEN ibs_cpus' = [ibs_cpus EXCEPT !.work.running = NoCpu]
           ELSE ibs_cpus' =
                    [ibs_cpus EXCEPT
                        !.ring[c] = pop_sample_on(r),
                        !.applied[c] =
                            Append(@, [pfn |-> r.samples[r.tail].pfn,
                                       time |-> r.samples[r.tail].time])]
    /\ UNCHANGED notCpus

NextRingCpus ==
    \/ \E c \in Cpus, pfn \in SamplePfns : ibs_overflow_handler(c, pfn)
    \/ \E c \in Cpus : irq_work_run(c)
    \/ \E c \in Cpus : ibs_irq_handler(c)
    \/ \E c \in Cpus : process_one_work(c)
    \/ \E c \in Cpus : ibs_work_handler(c)

----------------------------------------------------------------------------
\* drivers/cxl/hmu_perf.c: draining the device's hotlist into the AUX buffer

HOTLIST_ENTRY_SIZE == 8              \* bytes of a hotlist entry
HEADER_SIZE == 16                    \* sizeof(u64 header[2])
EINVAL == 22

HotSlots == 0 .. (HotlistSize - 1)
CounterWidths == {40, 48}            \* STATUS counter width: bits of a hotness counter
CtlCounterWidths == {16, 40, 48}     \* SpecHmuCtl: with the width of the documentation
AuxLength == AuxWords * HOTLIST_ENTRY_SIZE     \* buf->length, in bytes

min_t(a, b) == IF a < b THEN a ELSE b

\* perf_aux_output_end(handle, size) moves handle->head on by size.
perf_aux_output_end(head, size) == head + size

\* What perf_aux_output_begin may give: the buffer, or NULL when the AUX area is gone
\* or has no room.
perf_aux_output_begin_results == {"buf", "null"}

\* Faulty variant of hotlist_segments: the wrapped part is read first.
hotlist_segments_swapped(head, tail, top, pos, length) ==
    LET room == ulong_sub(ulong_sub(length, pos), HEADER_SIZE)
        tocopy == min_t((top - head) * HOTLIST_ENTRY_SIZE, room)
        tocopy2 == min_t(tail * HOTLIST_ENTRY_SIZE, ulong_sub(room, tocopy))
    IN  IF tail < head
        THEN [hdr |-> tocopy # 0, count |-> (tocopy + tocopy2) \div HOTLIST_ENTRY_SIZE,
              first |-> [from |-> 0, bytes |-> tocopy2],
              second |-> [from |-> head, bytes |-> tocopy]]
        ELSE [hdr |-> FALSE, count |-> 0, first |-> [from |-> head, bytes |-> 0],
              second |-> [from |-> 0, bytes |-> 0]]

\* Faulty variant of hotlist_segments: an empty hotlist gets a header of its own.
hotlist_segments_empty_header(head, tail, top, pos, length) ==
    IF tail = head
    THEN [hdr |-> TRUE, count |-> 0, first |-> [from |-> head, bytes |-> 0],
          second |-> [from |-> 0, bytes |-> 0]]
    ELSE LET room == ulong_sub(ulong_sub(length, pos), HEADER_SIZE)
             tocopy == min_t((IF tail > head THEN tail - head ELSE top - head)
                                * HOTLIST_ENTRY_SIZE, room)
             tocopy2 == IF tail > head THEN 0
                        ELSE min_t(tail * HOTLIST_ENTRY_SIZE, ulong_sub(room, tocopy))
         IN  [hdr |-> tocopy # 0, count |-> (tocopy + tocopy2) \div HOTLIST_ENTRY_SIZE,
              first |-> [from |-> head, bytes |-> tocopy],
              second |-> [from |-> 0, bytes |-> tocopy2]]

\* Lines 394-435 of cxl_hmu_update_aux: whether a header is written, the entry count
\* it carries, and the one or two runs of the hotlist copied after it.
hotlist_segments(head, tail, top, pos, length) ==
    LET room == ulong_sub(ulong_sub(length, pos), HEADER_SIZE)
    IN  IF tail > head
        THEN LET tocopy == min_t((tail - head) * HOTLIST_ENTRY_SIZE, room)
             IN  [hdr |-> tocopy # 0, count |-> tocopy \div HOTLIST_ENTRY_SIZE,
                  first |-> [from |-> head, bytes |-> tocopy],
                  second |-> [from |-> 0, bytes |-> 0]]
        ELSE IF tail < head
        THEN LET tocopy == min_t((top - head) * HOTLIST_ENTRY_SIZE, room)
                 tocopy2 == min_t(tail * HOTLIST_ENTRY_SIZE, ulong_sub(room, tocopy))
             IN  [hdr |-> tocopy # 0,
                  count |-> (tocopy + tocopy2) \div HOTLIST_ENTRY_SIZE,
                  first |-> [from |-> head, bytes |-> tocopy],
                  second |-> [from |-> 0, bytes |-> tocopy2]]
        ELSE [hdr |-> FALSE, count |-> 0, first |-> [from |-> head, bytes |-> 0],
              second |-> [from |-> 0, bytes |-> 0]]

\* memcpy_fromio of a run of the hotlist: the words read, each with the slot it is from.
hotlist_words(run) ==
    [i \in 1 .. (run.bytes \div HOTLIST_ENTRY_SIZE) |->
        [kind |-> "entry", slot |-> run.from + i - 1, hi |-> 0,
         val |-> IF run.from + i - 1 \in HotSlots THEN hmu_list[run.from + i - 1] ELSE 0]]

\* A 64-bit word of the AUX buffer is kept as val, its bits 15..0, and hi, the bits
\* above them.

\* FIELD_PREP(CHMU_HEADER0_SIZE_MASK, n): bits 15..0 of header[0].
CHMU_HEADER0_SIZE_MASK(n) == n % (2 ^ 16)

\* FIELD_PREP(CHMU_HEADER0_COUNT_WIDTH, w): bits 23..16 of header[0], as part of hi.
CHMU_HEADER0_COUNT_WIDTH(w) == w % (2 ^ 8)

\* header[1] = 0xDEADBEEF
CHMU_HEADER1 == [kind |-> "header1", slot |-> 0, hi |-> 57005, val |-> 48879]

\* Lines 397-399 and 415-417: the two words of the header.
chmu_header(count, count_width) ==
    <<[kind |-> "header0", slot |-> 0,
       hi |-> CHMU_HEADER0_COUNT_WIDTH(count_width),
       val |-> CHMU_HEADER0_SIZE_MASK(count)],
      CHMU_HEADER1>>

\* The words a drain writes from buf->pos on.
drain_words(seg) ==
    (IF seg.hdr THEN chmu_header(seg.count, hmu_status.width) ELSE <<>>)
    \o (IF seg.first.bytes # 0 /\ seg.hdr THEN hotlist_words(seg.first) ELSE <<>>)
    \o hotlist_words(seg.second)

\* memcpy to buf->base + pos: the words that fall inside the buffer.
aux_written(mem, pos, words) ==
    [w \in 0 .. (AuxWords - 1) |->
        LET i == w - (pos \div HOTLIST_ENTRY_SIZE) + 1
        IN  IF i \in DOMAIN words THEN words[i] ELSE mem[w]]

\* Faulty variant of aux_full: a cursor beyond the end counts as full too.
aux_full_or_beyond(pos, length) == pos >= length

\* Line 438: buf->pos == buf->length
aux_full(pos, length) == pos = length

\* cxl_hmu_update_aux(hmu, stop), perf_aux_output_begin giving begin.
cxl_hmu_update_aux(stop, begin) ==
    LET seg == hotlist_segments(hmu_head, hmu_tail, HotlistSize, buf_pos, AuxLength)
        words == drain_words(seg)
        size == Len(words) * HOTLIST_ENTRY_SIZE
        pos == buf_pos + size
        full == aux_full(pos, AuxLength)
        head == perf_aux_output_end(handle_head, size)
    IN  /\ aux_mem' = aux_written(aux_mem, buf_pos, words)
        /\ handle_head' = head
        /\ hmu_head' = IF full THEN hmu_head ELSE hmu_tail
        /\ buf_pos' = IF ~full /\ ~stop /\ begin = "buf" THEN head % AuxLength ELSE pos
        /\ hmu_session' = IF full \/ (~stop /\ begin = "null") THEN "ended"
                          ELSE IF stop THEN "stopped" ELSE "active"
        /\ hmu_g' = [hmu_g EXCEPT
                !.irq = IF stop THEN @ ELSE "IRQ_HANDLED",
                !.drain =
                [done |-> TRUE, head |-> hmu_head, tail |-> hmu_tail,
                 pos |-> buf_pos, words |-> words,
                 ret |-> IF full \/ (~stop /\ begin = "null") THEN 0 - EINVAL ELSE 0,
                 beyond |-> pos > AuxLength, stop |-> stop, end |-> pos,
                 begin |-> IF full \/ stop THEN "none" ELSE begin]]

\* Lines 624-627 of cxl_hmu_irq: the interrupt line is shared, and the handler called
\* with neither OVRFLW nor FILLTHRESH set in STATUS returns IRQ_NONE.
irq_none ==
    /\ hmu_status.bits = {}
    /\ hmu_g' = [hmu_g EXCEPT !.irq = "IRQ_NONE"]
    /\ UNCHANGED <<hmu_list, hmu_head, hmu_tail, hmu_status, aux_mem, buf_pos,
                   handle_head, hmu_session, hmu_run>>

\* Faulty variant of irq_ack: the status is not written back.
irq_ack_nothing(status, seen) == status

\* Line 637: the status that was read is written back to STATUS, which clears the
\* bits that were set in it.
irq_ack(status, seen) == [status EXCEPT !.bits = @ \ seen]

\* cxl_hmu_irq: a fill-threshold or overflow interrupt drains the hotlist and clears
\* the bits it saw; with neither bit set it returns IRQ_NONE.
cxl_hmu_irq(begin) ==
    /\ begin \in perf_aux_output_begin_results
    /\ IF hmu_status.bits = {}
       THEN /\ begin = "buf"
            /\ irq_none
       ELSE /\ hmu_session = "active"
            /\ cxl_hmu_update_aux(FALSE, begin)
            /\ hmu_status' = irq_ack(hmu_status, hmu_status.bits)
            /\ UNCHANGED <<hmu_list, hmu_tail, hmu_run>>
    /\ UNCHANGED notHmu

\* What readq_poll_timeout_atomic may return in cxl_hmu_stop: 0 once the unit reports
\* no operation in progress, or the timeout.
disable_poll_results == {"done", "timeout"}

\* cxl_hmu_stop on an enabled unit: the unit is disabled, and when the poll sees the
\* disable complete, what is left of the hotlist is drained; when the poll times out
\* the function returns at line 589.
cxl_hmu_stop(poll) ==
    /\ hmu_session = "active"
    /\ hmu_status.enabled
    /\ poll \in disable_poll_results
    /\ hmu_status' = [hmu_status EXCEPT !.enabled = FALSE]
    /\ IF poll = "done"
       THEN cxl_hmu_update_aux(TRUE, "buf")
       ELSE UNCHANGED <<hmu_head, aux_mem, buf_pos, handle_head, hmu_session, hmu_g>>
    /\ UNCHANGED <<hmu_list, hmu_tail, hmu_run>>
    /\ UNCHANGED notHmu

\* cxl_hmu_start on a unit that is not enabled (an enabled one gives -EBUSY at line
\* 469), under hmu->lock: irq_set_affinity binds the interrupt to the event's cpu or
\* fails with a warning (lines 474-476), a new AUX transaction starts at handle->head
\* and the unit is enabled.
cxl_hmu_start(affine) ==
    /\ hmu_session \in {"stopped", "ended"}
    /\ ~hmu_status.enabled
    /\ hmu_run.lock = "free"
    /\ buf_pos' = handle_head % AuxLength
    /\ hmu_session' = "active"
    /\ hmu_status' = [hmu_status EXCEPT !.enabled = TRUE]
    /\ hmu_run' = [hmu_run EXCEPT !.affine = affine]
    /\ UNCHANGED <<hmu_list, hmu_head, hmu_tail, aux_mem, handle_head, hmu_g>>
    /\ UNCHANGED notHmu

\* The device adds an entry at tail.  With the list full (the next tail would be head)
\* the entry is lost and the overflow bit is set; at half the list the fill-threshold
\* bit is set.
hmu_fill(head, tail) == (tail - head + HotlistSize) % HotlistSize

DeviceAdd ==
    /\ hmu_status.enabled
    /\ hmu_g.produced < lim.produce
    /\ LET next == (hmu_tail + 1) % HotlistSize
       IN  IF next = hmu_head
           THEN /\ hmu_status' = [hmu_status EXCEPT !.bits = @ \cup {"OVRFLW"}]
                /\ UNCHANGED <<hmu_list, hmu_tail>>
           ELSE /\ hmu_list' = [hmu_list EXCEPT ![hmu_tail] = hmu_g.produced + 1]
                /\ hmu_tail' = next
                /\ hmu_status' = [hmu_status EXCEPT !.bits =
                        IF hmu_fill(hmu_head, next) >= HotlistSize \div 2
                        THEN @ \cup {"FILLTHRESH"} ELSE @]
    /\ hmu_g' = [hmu_g EXCEPT !.produced = @ + 1]
    /\ UNCHANGED <<hmu_head, aux_mem, buf_pos, handle_head, hmu_session, hmu_run>>
    /\ UNCHANGED notHmu

----------------------------------------------------------------------------
\* cxl_hmu_irq and cxl_hmu_stop step by step (SpecHmuConc)

HmuCtx == {"irq", "stop"}
CtxIdle == [pc |-> "idle", head |-> 0, tail |-> 0, size |-> 0, status |-> {}]

\* The context c is inside cxl_hmu_update_aux.
InUpdateAux(c) == hmu_run[c].pc \in {"regs", "copy", "end", "head", "begin"}

\* With the interrupt bound to the event's cpu the handler and cxl_hmu_stop run on one
\* cpu, and the perf core calls pmu->stop with interrupts off: neither runs inside the
\* other.  With irq_set_affinity failed the handler runs on any cpu.
SameCpuExcludes(other) == hmu_run.affine /\ hmu_run[other].pc # "idle"

\* Lines 624-629 of cxl_hmu_irq: the status is read, a bit is set, cxl_hmu_update_aux
\* is called.  The handler does not take hmu->lock.
IrqEnter ==
    /\ hmu_run.irq.pc = "idle"
    /\ hmu_session = "active"
    /\ hmu_status.bits # {}
    /\ ~SameCpuExcludes("stop")
    /\ hmu_run' = [hmu_run EXCEPT !.irq = [CtxIdle EXCEPT !.pc = "regs",
                                                          !.status = hmu_status.bits]]
    /\ UNCHANGED <<hmu_list, hmu_head, hmu_tail, hmu_status, aux_mem, buf_pos,
                   handle_head, hmu_session, hmu_g>>
    /\ UNCHANGED notHmu

\* Lines 573-592 of cxl_hmu_stop: hmu->lock is taken, the unit is disabled and the
\* poll returns; cxl_hmu_update_aux is called unless the poll timed out.
StopEnter(poll) ==
    /\ hmu_run.stop.pc = "idle"
    /\ hmu_run.lock = "free"
    /\ hmu_session = "active"
    /\ hmu_status.enabled
    /\ ~SameCpuExcludes("irq")
    /\ poll \in disable_poll_results
    /\ hmu_status' = [hmu_status EXCEPT !.enabled = FALSE]
    /\ hmu_run' = [hmu_run EXCEPT !.lock = "stop",
                                  !.stop = [CtxIdle EXCEPT !.pc = IF poll = "done"
                                                                 THEN "regs" ELSE "ret"]]
    /\ UNCHANGED <<hmu_list, hmu_head, hmu_tail, aux_mem, buf_pos, handle_head,
                   hmu_session, hmu_g>>
    /\ UNCHANGED notHmu

\* Lines 383-384: head and tail are read from the device.
UpdRegs(c) ==
    /\ hmu_run[c].pc = "regs"
    /\ hmu_run' = [hmu_run EXCEPT ![c].pc = "copy", ![c].head = hmu_head,
                                  ![c].tail = hmu_tail]
    /\ UNCHANGED <<hmu_list, hmu_head, hmu_tail, hmu_status, aux_mem, buf_pos,
                   handle_head, hmu_session, hmu_g>>
    /\ UNCHANGED notHmu

\* Lines 394-435: the header and the entries are copied to buf->base + buf->pos and
\* buf->pos moves on.
UpdCopy(c) ==
    /\ hmu_run[c].pc = "copy"
    /\ LET seg == hotlist_segments(hmu_run[c].head, hmu_run[c].tail, HotlistSize,
                                   buf_pos, AuxLength)
           words == drain_words(seg)
           size == Len(words) * HOTLIST_ENTRY_SIZE
       IN  /\ aux_mem' = aux_written(aux_mem, buf_pos, words)
           /\ buf_pos' = buf_pos + size
           /\ hmu_run' = [hmu_run EXCEPT ![c].pc = "end", ![c].size = size]
    /\ UNCHANGED <<hmu_list, hmu_head, hmu_tail, hmu_status, handle_head, hmu_session,
                   hmu_g>>
    /\ UNCHANGED notHmu

\* Lines 437-439: perf_aux_output_end, and the return of -EINVAL on a full buffer.
UpdEnd(c) ==
    /\ hmu_run[c].pc = "end"
    /\ handle_head' = perf_aux_output_end(handle_head, hmu_run[c].size)
    /\ hmu_session' = IF c = "stop" /\ ~aux_full(buf_pos, AuxLength)
                      THEN "stopped" ELSE "ended"
    /\ hmu_run' = [hmu_run EXCEPT ![c].pc = IF aux_full(buf_pos, AuxLength)
                                            THEN "ret" ELSE "head"]
    /\ UNCHANGED <<hmu_list, hmu_head, hmu_tail, hmu_status, aux_mem, buf_pos, hmu_g>>
    /\ UNCHANGED notHmu

\* Line 442: the tail that was read is written to the head register.
UpdHead(c) ==
    /\ hmu_run[c].pc = "head"
    /\ hmu_head' = hmu_run[c].tail
    /\ hmu_run' = [hmu_run EXCEPT ![c].pc = IF c = "stop" THEN "ret" ELSE "begin"]
    /\ UNCHANGED <<hmu_list, hmu_tail, hmu_status, aux_mem, buf_pos, handle_head,
                   hmu_session, hmu_g>>
    /\ UNCHANGED notHmu

\* Lines 444-449, the drain not being a stop: perf_aux_output_begin.
UpdBegin(begin) ==
    /\ hmu_run.irq.pc = "begin"
    /\ begin \in perf_aux_output_begin_results
    /\ IF begin = "buf"
       THEN /\ buf_pos' = handle_head % AuxLength
            /\ hmu_session' = "active"
       ELSE UNCHANGED <<buf_pos, hmu_session>>
    /\ hmu_run' = [hmu_run EXCEPT !.irq.pc = "ret"]
    /\ UNCHANGED <<hmu_list, hmu_head, hmu_tail, hmu_status, aux_mem, handle_head, hmu_g>>
    /\ UNCHANGED notHmu

\* Lines 637-639 of cxl_hmu_irq: the status that was read is written back, which
\* clears the bits that were set in it.
IrqReturn ==
    /\ hmu_run.irq.pc = "ret"
    /\ hmu_status' = irq_ack(hmu_status, hmu_run.irq.status)
    /\ hmu_run' = [hmu_run EXCEPT !.irq = CtxIdle]
    /\ hmu_g' = [hmu_g EXCEPT !.irq = "IRQ_HANDLED"]
    /\ UNCHANGED <<hmu_list, hmu_head, hmu_tail, aux_mem, buf_pos, handle_head,
                   hmu_session>>
    /\ UNCHANGED notHmu

\* cxl_hmu_irq called with neither bit set, while the handler is not running.
IrqNone ==
    /\ hmu_run.irq.pc = "idle"
    /\ ~SameCpuExcludes("stop")
    /\ irq_none
    /\ UNCHANGED notHmu

\* Lines 589 and 595 of cxl_hmu_stop: the return releases hmu->lock.
StopReturn ==
    /\ hmu_run.stop.pc = "ret"
    /\ hmu_run' = [hmu_run EXCEPT !.stop = CtxIdle, !.lock = "free"]
    /\ UNCHANGED <<hmu_list, hmu_head, hmu_tail, hmu_status, aux_mem, buf_pos,
                   handle_head, hmu_session, hmu_g>>
    /\ UNCHANGED notHmu

----------------------------------------------------------------------------
\* drivers/cxl/hmu_perf.c: configuring, starting and stopping the unit (SpecHmuCtl)

EBUSY == 16
EOPNOTSUPP == 95
ETIMEDOUT == 110
CHMU_MODE_EPOCH == 0
CHMU_MODE_ALWAYS_ON == 1
CHMU_INST0_CFG0_WHAT_NONTEE_R == 1
CHMU_INST0_CFG0_WHAT_RW == 6
POLL_DELAY_US == 10                  \* delay_us of the three polls

\* What the capability registers of the unit say.  A bit mask is the set of the
\* numbers of the bits that are set in it.
CHMU_CAP ==
    [epoch_sup |-> TRUE, always_on_sup |-> FALSE, rand_downsamp_sup |-> FALSE,
     unit_size |-> {1, 2}, downsamp |-> {1, 3},
     epoch_min_scale |-> 1, epoch_min_mult |-> 1,
     epoch_max_scale |-> 2, epoch_max_mult |-> 5,
     ranges |-> 128]     \* (hotlist_offset - bitmap_offset) * 8

\* ffs(): the number of the lowest bit set, counted from 1; 0 for an empty mask.
ffs(mask) == IF mask = {} THEN 0 ELSE 1 + CHOOSE b \in mask : \A c \in mask : b <= c

int_pow(base, exp) == base ^ exp

\* The tracking parameters of struct cxl_hmu_info, zeroed by the allocation.
HmuParams ==
    [hot_thresh |-> 0, hot_gran |-> 0, range_base |-> 0, range_num |-> 0,
     reporting_mode |-> CHMU_MODE_EPOCH, m2s_requests_to_track |-> 0,
     ds_factor_pow2 |-> 0, epoch_scale |-> 0, epoch_mult |-> 0, randomized_ds |-> FALSE]

\* An event as perf_event_open passes it: the fields of attr.config, config1 and
\* config2, the cpu, and whether the type is this pmu's and the event is per task.
AttrA ==
    [pmu_type |-> TRUE, cpu |-> 0, attach_task |-> FALSE,
     epoch_type |-> 0, access_type |-> 1, epoch_scale |-> 1, epoch_multiplier |-> 2,
     randomized_downsampling |-> FALSE, downsampling_factor |-> 1,
     hotness_threshold |-> 1, hotness_granual |-> 9, range_base |-> 0, range_size |-> 2]

\* An event that leaves granule, downsampling, epoch and range to the defaults.
AttrDefaults ==
    [pmu_type |-> TRUE, cpu |-> 0, attach_task |-> FALSE,
     epoch_type |-> 0, access_type |-> 6, epoch_scale |-> 0, epoch_multiplier |-> 0,
     randomized_downsampling |-> FALSE, downsampling_factor |-> 0,
     hotness_threshold |-> 1, hotness_granual |-> 0, range_base |-> 0, range_size |-> 0]

\* An event that differs from AttrA in every parameter; its threshold needs more than
\* 16 bits.
AttrB ==
    [pmu_type |-> TRUE, cpu |-> 0, attach_task |-> FALSE,
     epoch_type |-> 0, access_type |-> 4, epoch_scale |-> 2, epoch_multiplier |-> 3,
     randomized_downsampling |-> FALSE, downsampling_factor |-> 3,
     hotness_threshold |-> 65536, hotness_granual |-> 10, range_base |-> 1,
     range_size |-> 1]

\* AttrB with one field that cxl_hmu_event_init rejects.
AttrRejected ==
    {[AttrB EXCEPT !.pmu_type = FALSE],
     [AttrB EXCEPT !.cpu = -1],
     [AttrB EXCEPT !.attach_task = TRUE],
     [AttrB EXCEPT !.epoch_type = 1],
     [AttrB EXCEPT !.epoch_type = 2],
     [AttrB EXCEPT !.randomized_downsampling = TRUE],
     [AttrB EXCEPT !.access_type = 0],
     [AttrB EXCEPT !.hotness_granual = 7],
     [AttrB EXCEPT !.hotness_granual = 11],
     [AttrB EXCEPT !.downsampling_factor = 2],
     [AttrB EXCEPT !.epoch_multiplier = 0],
     [AttrB EXCEPT !.epoch_multiplier = 9],
     [AttrB EXCEPT !.range_size = 129]}

Attrs == {AttrA, AttrDefaults, AttrB} \cup AttrRejected

\* A return of cxl_hmu_event_init at the line, or its going on (ret = 0, line = 0),
\* with hmu as it is by then.
InitAt(hmu, ret, line) == [hmu |-> hmu, ret |-> ret, line |-> line]

\* Lines 242-251
init_event(hmu, attr) ==
    IF ~attr.pmu_type THEN InitAt(hmu, 0 - ENOENT, 243)
    ELSE IF attr.cpu < 0 THEN InitAt(hmu, 0 - EOPNOTSUPP, 247)
    ELSE IF attr.attach_task THEN InitAt(hmu, 0 - EOPNOTSUPP, 251)
    ELSE InitAt(hmu, 0, 0)

\* Lines 256-271
init_reporting_mode(hmu, attr) ==
    IF attr.epoch_type = 0
    THEN IF ~CHMU_CAP.epoch_sup THEN InitAt(hmu, 0 - EOPNOTSUPP, 260)
         ELSE InitAt([hmu EXCEPT !.reporting_mode = CHMU_MODE_EPOCH], 0, 0)
    ELSE IF attr.epoch_type = 1
    THEN IF ~CHMU_CAP.always_on_sup THEN InitAt(hmu, 0 - EOPNOTSUPP, 265)
         ELSE InitAt([hmu EXCEPT !.reporting_mode = CHMU_MODE_ALWAYS_ON], 0, 0)
    ELSE InitAt(hmu, 0 - EINVAL, 270)

\* Lines 272-277
init_randomized_ds(hmu, attr) ==
    LET h == [hmu EXCEPT !.randomized_ds = attr.randomized_downsampling]
    IN  IF h.randomized_ds /\ ~CHMU_CAP.rand_downsamp_sup
        THEN InitAt(h, 0 - EOPNOTSUPP, 276)
        ELSE InitAt(h, 0, 0)

\* Lines 280-286
init_requests_to_track(hmu, attr) ==
    LET h == [hmu EXCEPT !.m2s_requests_to_track = attr.access_type]
    IN  IF \/ h.m2s_requests_to_track < CHMU_INST0_CFG0_WHAT_NONTEE_R
           \/ h.m2s_requests_to_track > CHMU_INST0_CFG0_WHAT_RW
        THEN InitAt(h, 0 - EINVAL, 285)
        ELSE InitAt(h, 0, 0)

\* Lines 288-308
init_granule(hmu, attr) ==
    LET gran_sup == CHMU_CAP.unit_size
        h == [hmu EXCEPT !.hot_thresh = attr.hotness_threshold,
                         !.hot_gran = IF attr.hotness_granual = 0 /\ gran_sup # {}
                                      THEN 8 + ffs(gran_sup)
                                      ELSE attr.hotness_granual]
    IN  IF h.hot_gran < 8 THEN InitAt(h, 0 - EINVAL, 301)
        ELSE IF (h.hot_gran - 8) \notin gran_sup THEN InitAt(h, 0 - EOPNOTSUPP, 307)
        ELSE InitAt(h, 0, 0)

\* Lines 310-324
init_downsampling(hmu, attr) ==
    LET ds_sup == CHMU_CAP.downsamp
        h == [hmu EXCEPT !.ds_factor_pow2 = attr.downsampling_factor]
    IN  IF h.ds_factor_pow2 \in ds_sup THEN InitAt(h, 0, 0)
        ELSE IF h.ds_factor_pow2 = 0 /\ ds_sup # {}
        THEN InitAt([h EXCEPT !.ds_factor_pow2 = ffs(ds_sup)], 0, 0)
        ELSE InitAt(h, 0 - EOPNOTSUPP, 322)

\* Lines 326-351
init_epoch(hmu, attr) ==
    LET set == [hmu EXCEPT !.epoch_scale = attr.epoch_scale,
                           !.epoch_mult = attr.epoch_multiplier]
        h == IF set.epoch_mult = 0 /\ set.epoch_scale = 0
             THEN [set EXCEPT !.epoch_scale = CHMU_CAP.epoch_min_scale,
                              !.epoch_mult = CHMU_CAP.epoch_min_mult]
             ELSE set
        epoch_min == int_pow(10, CHMU_CAP.epoch_min_scale) * CHMU_CAP.epoch_min_mult
        epoch_max == int_pow(10, CHMU_CAP.epoch_max_scale) * CHMU_CAP.epoch_max_mult
        epoch == int_pow(10, h.epoch_scale) * h.epoch_mult
    IN  IF h.epoch_mult = 0 THEN InitAt(h, 0 - EINVAL, 338)
        ELSE IF epoch > epoch_max \/ epoch < epoch_min THEN InitAt(h, 0 - EINVAL, 350)
        ELSE InitAt(h, 0, 0)

\* Lines 353-371
init_range(hmu, attr) ==
    LET set == [hmu EXCEPT !.range_base = attr.range_base, !.range_num = attr.range_size]
        h == IF set.range_num = 0 THEN [set EXCEPT !.range_num = CHMU_CAP.ranges] ELSE set
    IN  IF h.range_base + h.range_num > CHMU_CAP.ranges
        THEN InitAt(h, 0 - EINVAL, 368)
        ELSE InitAt(h, 0, 371)

\* cxl_hmu_event_init on hmu for the event: hmu as the call leaves it, what it returns
\* and the line it returns at.
event_init(hmu, attr) ==
    LET \* the next part of the function runs unless an earlier one has returned
        r1 == init_event(hmu, attr)
        r2 == IF r1.line # 0 THEN r1 ELSE init_reporting_mode(r1.hmu, attr)
        r3 == IF r2.line # 0 THEN r2 ELSE init_randomized_ds(r2.hmu, attr)
        r4 == IF r3.line # 0 THEN r3 ELSE init_requests_to_track(r3.hmu, attr)
        r5 == IF r4.line # 0 THEN r4 ELSE init_granule(r4.hmu, attr)
        r6 == IF r5.line # 0 THEN r5 ELSE init_downsampling(r5.hmu, attr)
        r7 == IF r6.line # 0 THEN r6 ELSE init_epoch(r6.hmu, attr)
    IN  IF r7.line # 0 THEN r7 ELSE init_range(r7.hmu, attr)

\* cxl_hmu_event_init(event).  It takes no lock and runs whatever cxl_hmu_start or
\* cxl_hmu_stop is doing.  The parameters are the unit's, not the event's: the call
\* for one event writes what an event made before it is started with.  An event
\* exists once a call has returned 0.
cxl_hmu_event_init(attr) ==
    /\ hmu_ctl.n.inits < MaxInits
    /\ LET r == event_init(hmu_ctl.hmu, attr)
       IN  hmu_ctl' = [hmu_ctl EXCEPT
                !.hmu = r.hmu,
                !.n.inits = @ + 1,
                !.event = @ \/ r.ret = 0,
                !.init = [done |-> TRUE, ret |-> r.ret, line |-> r.line,
                          hmu |-> hmu_ctl.hmu, attr |-> attr]]
    /\ UNCHANGED hmuVars
    /\ UNCHANGED notHmuCtl

\* The configuration registers after reset.
CfgZero ==
    [cfg0 |-> [what |-> 0, rand_downsamp_en |-> FALSE, ovrflw_int_en |-> FALSE,
               fillthresh_int_en |-> FALSE, enable |-> FALSE, reset_counters |-> FALSE,
               hotness_thresh |-> 0],
     cfg1 |-> [unit_size |-> 0, ds_factor |-> 0, mode |-> 0, epoch_scale |-> 0,
               epoch_mult |-> 0],
     cfg2 |-> 0,
     bitmap |-> [w \in 0 .. (CHMU_CAP.ranges \div 64) |-> {}]]

\* The arguments delay_us and timeout_us of the three calls of
\* readq_poll_timeout_atomic, with no timeout: 0 stands for none.
poll_args_forever == [delay_us |-> POLL_DELAY_US, timeout_us |-> 0]

\* Lines 493, 545 and 586: delay_us and timeout_us of readq_poll_timeout_atomic.
poll_args == [delay_us |-> POLL_DELAY_US, timeout_us |-> PollTimeoutUs]

\* One turn of the loop of readq_poll_timeout_atomic for the condition OP_INPROG == 0,
\* elapsed microseconds after it began: it returns 0 when the condition holds and
\* -ETIMEDOUT when the timeout has passed, and delays and goes round otherwise.
readq_poll_timeout_atomic(inprog, elapsed, args) ==
    IF inprog = "NONE" THEN [done |-> TRUE, ret |-> 0, elapsed |-> elapsed]
    ELSE IF args.timeout_us # 0 /\ elapsed > args.timeout_us
    THEN [done |-> TRUE, ret |-> 0 - ETIMEDOUT, elapsed |-> elapsed]
    ELSE [done |-> FALSE, ret |-> 0, elapsed |-> elapsed + args.delay_us]

\* History: what cxl_hmu_start found when it was called.
StartBegun ==
    [done |-> FALSE, ret |-> 0, line |-> 0, regs |-> hmu_ctl.regs,
     session |-> hmu_session, enabled |-> hmu_status.enabled, wrote |-> {}]

\* __cxl_hmu_start returns ret at the line; cxl_hmu_start marks the event stopped when
\* ret is not 0 (lines 562-563) and drops hmu->lock.
start_returns(ctl, ret, line) ==
    [ctl EXCEPT !.pc = "idle",
                !.state = IF ret # 0 THEN @ \cup {"PERF_HES_STOPPED"} ELSE @,
                !.start.done = TRUE, !.start.ret = ret, !.start.line = line]

\* Faulty variant of StartCall: perf_aux_output_begin comes before the test of
\* STATUS_ENABLED.
StartCallBeginsFirst(begin) ==
    /\ hmu_ctl.pc = "idle"
    /\ hmu_ctl.event
    /\ hmu_ctl.n.starts < MaxStarts
    /\ begin \in perf_aux_output_begin_results
    /\ LET ctl == [hmu_ctl EXCEPT !.state = {}, !.n.starts = @ + 1, !.start = StartBegun]
       IN  IF begin = "null"
           THEN /\ hmu_ctl' = start_returns(ctl, 0 - EINVAL, 483)
                /\ UNCHANGED <<hmu_status, hmu_session, buf_pos>>
           ELSE IF hmu_status.enabled
           THEN /\ hmu_ctl' = start_returns(ctl, 0 - EBUSY, 469)
                /\ hmu_session' = "active"
                /\ buf_pos' = handle_head % AuxLength
                /\ UNCHANGED hmu_status
           ELSE /\ hmu_session' = "active"
                /\ buf_pos' = handle_head % AuxLength
                /\ hmu_status' = [hmu_status EXCEPT !.inprog = "RESET"]
                /\ hmu_ctl' = [ctl EXCEPT
                        !.pc = "reset_poll", !.elapsed = 0,
                        !.regs.cfg0 = [CfgZero.cfg0 EXCEPT !.reset_counters = TRUE]]
    /\ UNCHANGED <<hmu_list, hmu_head, hmu_tail, aux_mem, handle_head, hmu_g, hmu_run>>
    /\ UNCHANGED notHmuCtl

\* cxl_hmu_start up to the poll for the reset, lines 559 and 465-489, with
\* perf_aux_output_begin giving begin.
StartCall(begin) ==
    /\ hmu_ctl.pc = "idle"
    /\ hmu_ctl.event
    /\ hmu_ctl.n.starts < MaxStarts
    /\ begin \in perf_aux_output_begin_results
    /\ LET ctl == [hmu_ctl EXCEPT !.state = {}, !.n.starts = @ + 1, !.start = StartBegun]
       IN  IF hmu_status.enabled
           THEN /\ hmu_ctl' = start_returns(ctl, 0 - EBUSY, 469)
                /\ UNCHANGED <<hmu_status, hmu_session, buf_pos>>
           ELSE IF begin = "null"
           THEN /\ hmu_ctl' = start_returns(ctl, 0 - EINVAL, 483)
                /\ UNCHANGED <<hmu_status, hmu_session, buf_pos>>
           ELSE /\ hmu_session' = "active"
                /\ buf_pos' = handle_head % AuxLength
                /\ hmu_status' = [hmu_status EXCEPT !.inprog = "RESET"]
                /\ hmu_ctl' = [ctl EXCEPT
                        !.pc = "reset_poll", !.elapsed = 0,
                        !.regs.cfg0 = [CfgZero.cfg0 EXCEPT !.reset_counters = TRUE]]
    /\ UNCHANGED <<hmu_list, hmu_head, hmu_tail, aux_mem, handle_head, hmu_g, hmu_run>>
    /\ UNCHANGED notHmuCtl

\* Faulty variant of ResetPoll: the return value of the poll is ignored.
ResetPollIgnoresTimeout ==
    /\ hmu_ctl.pc = "reset_poll"
    /\ LET p == readq_poll_timeout_atomic(hmu_status.inprog, hmu_ctl.elapsed, poll_args)
       IN  hmu_ctl' = IF ~p.done THEN [hmu_ctl EXCEPT !.elapsed = p.elapsed]
                      ELSE [hmu_ctl EXCEPT !.pc = "configure"]
    /\ UNCHANGED hmuVars
    /\ UNCHANGED notHmuCtl

\* Lines 491-497: a turn of the poll for the reset.
ResetPoll ==
    /\ hmu_ctl.pc = "reset_poll"
    /\ LET p == readq_poll_timeout_atomic(hmu_status.inprog, hmu_ctl.elapsed, poll_args)
       IN  hmu_ctl' = IF ~p.done THEN [hmu_ctl EXCEPT !.elapsed = p.elapsed]
                      ELSE IF p.ret # 0 THEN start_returns(hmu_ctl, p.ret, 496)
                      ELSE [hmu_ctl EXCEPT !.pc = "configure"]
    /\ UNCHANGED hmuVars
    /\ UNCHANGED notHmuCtl

\* Lines 508-518: the words of the range bitmap after the loop over base .. end - 1
\* and the write that follows it.  The loop writes a word when it comes to its bit 63;
\* the write after the loop goes to the word that i, by then end (or base, when the
\* loop did not run), is in, with the bits gathered since the last write.
range_bitmap(base, end, bitmap) ==
    LET after == IF base < end THEN end ELSE base
        bits(w) == {i % 64 : i \in {j \in base .. (end - 1) : j \div 64 = w}}
    IN  [w \in DOMAIN bitmap |->
            IF (w * 64 + 63) \in base .. (end - 1) \/ w = after \div 64
            THEN bits(w)
            ELSE bitmap[w]]

\* Lines 508-518: the words, counted from bitmap_base, that the loop over
\* base .. end - 1 and the write after it write to.
range_words_written(base, end) ==
    LET after == IF base < end THEN end ELSE base
    IN  {w \in 0 .. (after \div 64) :
            (w * 64 + 63) \in base .. (end - 1) \/ w = after \div 64}

\* 1 << n as C computes it, in int, 32 bits wide.  For n > 31 the behaviour is
\* undefined: the shift instruction of the cpu takes the count modulo 32, and a
\* compiler that knows the count gives 0.  (The widths of the model keep n off 31.)
shl_int(n) == IF n < 31 THEN {2 ^ n} ELSE {2 ^ (n % 32), 0}

\* Line 530: the values 1 << (64 - width) may have.
threshold_limit(width) == shl_int(64 - width)

\* Lines 501-540: CFG1, the range bitmap and CFG2 are written, then the threshold is
\* checked against the counter width, then CFG0 is written with the enable bit.
StartConfigure ==
    /\ hmu_ctl.pc = "configure"
    /\ LET h == hmu_ctl.hmu
           regs == [hmu_ctl.regs EXCEPT
                !.cfg1 = [unit_size |-> h.hot_gran, ds_factor |-> h.ds_factor_pow2 % 16,
                          mode |-> h.reporting_mode, epoch_scale |-> h.epoch_scale % 16,
                          epoch_mult |-> h.epoch_mult % 4096],
                !.bitmap = range_bitmap(h.range_base, h.range_base + h.range_num, @),
                !.cfg2 = (HotlistSize \div 2) % 65536]
           ctl == [hmu_ctl EXCEPT
                !.regs = regs,
                !.start.wrote = range_words_written(h.range_base,
                                                    h.range_base + h.range_num)]
       IN  \E limit \in threshold_limit(hmu_status.width) :
            IF h.hot_thresh >= limit
            THEN /\ hmu_ctl' = start_returns(ctl, 0 - EINVAL, 531)
                 /\ UNCHANGED hmu_status
            ELSE /\ hmu_ctl' = [ctl EXCEPT
                        !.pc = "enable_poll", !.elapsed = 0,
                        !.regs.cfg0 = [what |-> h.m2s_requests_to_track,
                                       rand_downsamp_en |-> h.randomized_ds,
                                       ovrflw_int_en |-> TRUE, fillthresh_int_en |-> TRUE,
                                       enable |-> TRUE, reset_counters |-> FALSE,
                                       hotness_thresh |-> h.hot_thresh]]
                 /\ hmu_status' = [hmu_status EXCEPT !.inprog = "ENABLE"]
    /\ UNCHANGED <<hmu_list, hmu_head, hmu_tail, aux_mem, buf_pos, handle_head,
                   hmu_session, hmu_g, hmu_run>>
    /\ UNCHANGED notHmuCtl

\* Lines 543-551: a turn of the poll for the enable.
EnablePoll ==
    /\ hmu_ctl.pc = "enable_poll"
    /\ LET p == readq_poll_timeout_atomic(hmu_status.inprog, hmu_ctl.elapsed, poll_args)
       IN  hmu_ctl' = IF ~p.done THEN [hmu_ctl EXCEPT !.elapsed = p.elapsed]
                      ELSE IF p.ret # 0 THEN start_returns(hmu_ctl, p.ret, 548)
                      ELSE start_returns(hmu_ctl, 0, 551)
    /\ UNCHANGED hmuVars
    /\ UNCHANGED notHmuCtl

\* cxl_hmu_stop returns at the line.  It returns nothing and leaves event->hw.state as
\* it is; history: the state the caller finds, by whether the unit was stopped.
stop_returns(ctl, line) ==
    [ctl EXCEPT !.pc = "idle", !.stop = [done |-> TRUE, line |-> line],
                !.seen = IF line = 589 THEN [@ EXCEPT !.failed = @ \cup {ctl.state}]
                         ELSE IF line = 595 /\ ctl.pc = "disable_poll"
                         THEN [@ EXCEPT !.stopped = @ \cup {ctl.state}]
                         ELSE @]

\* cxl_hmu_stop up to the poll for the disable, lines 573-582.
StopCall ==
    /\ hmu_ctl.pc = "idle"
    /\ hmu_ctl.event
    /\ IF "PERF_HES_STOPPED" \in hmu_ctl.state
       THEN /\ hmu_ctl' = stop_returns(hmu_ctl, 574)
            /\ UNCHANGED hmu_status
       ELSE IF ~hmu_status.enabled
       THEN /\ hmu_ctl' = stop_returns(hmu_ctl, 595)
            /\ UNCHANGED hmu_status
       ELSE /\ hmu_ctl' = [hmu_ctl EXCEPT !.pc = "disable_poll", !.elapsed = 0,
                                          !.regs.cfg0.enable = FALSE,
                                          !.stop = [done |-> FALSE, line |-> 0]]
            /\ hmu_status' = [hmu_status EXCEPT !.inprog = "DISABLE"]
    /\ UNCHANGED <<hmu_list, hmu_head, hmu_tail, aux_mem, buf_pos, handle_head,
                   hmu_session, hmu_g, hmu_run>>
    /\ UNCHANGED notHmuCtl

\* Lines 584-595: a turn of the poll for the disable; after it cxl_hmu_update_aux
\* drains what is left, unless the poll timed out.
DisablePoll ==
    /\ hmu_ctl.pc = "disable_poll"
    /\ LET p == readq_poll_timeout_atomic(hmu_status.inprog, hmu_ctl.elapsed, poll_args)
       IN  IF ~p.done
           THEN /\ hmu_ctl' = [hmu_ctl EXCEPT !.elapsed = p.elapsed]
                /\ UNCHANGED <<hmu_head, aux_mem, buf_pos, handle_head, hmu_session, hmu_g>>
           ELSE IF p.ret # 0
           THEN /\ hmu_ctl' = stop_returns(hmu_ctl, 589)
                /\ UNCHANGED <<hmu_head, aux_mem, buf_pos, handle_head, hmu_session, hmu_g>>
           ELSE /\ hmu_ctl' = stop_returns(hmu_ctl, 595)
                /\ cxl_hmu_update_aux(TRUE, "buf")
    /\ UNCHANGED <<hmu_list, hmu_tail, hmu_status, hmu_run>>
    /\ UNCHANGED notHmuCtl

\* The unit completes the operation in progress: STATUS shows none in progress, and
\* the unit enabled after an enable and not enabled after a disable.
DeviceCompletes ==
    /\ hmu_status.inprog # "NONE"
    /\ hmu_status' = [hmu_status EXCEPT
            !.inprog = "NONE",
            !.enabled = IF hmu_status.inprog = "ENABLE" THEN TRUE
                        ELSE IF hmu_status.inprog = "DISABLE" THEN FALSE
                        ELSE @]
    /\ UNCHANGED <<hmu_list, hmu_head, hmu_tail, aux_mem, buf_pos, handle_head,
                   hmu_session, hmu_g, hmu_run, hmu_ctl>>
    /\ UNCHANGED notHmuCtl

\* The event after cxl_hmu_add has marked it (line 605), no call made yet.
InitCtlState ==
    hmu_ctl = [pc |-> "idle", elapsed |-> 0, hmu |-> HmuParams, regs |-> CfgZero,
               event |-> FALSE,
               state |-> {"PERF_HES_STOPPED", "PERF_HES_UPTODATE"},
               n |-> [inits |-> 0, starts |-> 0],
               init |-> [done |-> FALSE, ret |-> 0, line |-> 0, hmu |-> HmuParams,
                         attr |-> AttrDefaults],
               start |-> [done |-> FALSE, ret |-> 0, line |-> 0, regs |-> CfgZero,
                          session |-> "stopped", enabled |-> FALSE, wrote |-> {}],
               stop |-> [done |-> FALSE, line |-> 0],
               seen |-> [stopped |-> {}, failed |-> {}]]

\* The unit after probe, its counters being of one of the widths.
InitHmuDevice(widths) ==
    /\ hmu_list = [i \in HotSlots |-> 0]
    /\ hmu_head = 0
    /\ hmu_tail = 0
    /\ hmu_status \in [enabled : {FALSE}, inprog : {"NONE"}, bits : {{}}, width : widths]
    /\ aux_mem = [w \in 0 .. (AuxWords - 1) |->
                    [kind |-> "zero", slot |-> 0, hi |-> 0, val |-> 0]]
    /\ buf_pos = 0
    /\ handle_head = 0
    /\ hmu_session = "stopped"
    /\ hmu_g = [produced |-> 0, irq |-> "none",
                drain |-> [done |-> FALSE, head |-> 0, tail |-> 0, pos |-> 0, words |-> <<>>,
                           ret |-> 0, beyond |-> FALSE, stop |-> FALSE, end |-> 0,
                           begin |-> "none"]]
    /\ hmu_run = [lock |-> "free", affine |-> TRUE, irq |-> CtxIdle, stop |-> CtxIdle]
    /\ InitCtlState

InitHmuState == InitHmuDevice({48})

NextHmu ==
    \/ \E begin \in {"buf", "null"} : cxl_hmu_irq(begin)
    \/ \E poll \in {"done", "timeout"} : cxl_hmu_stop(poll)
    \/ \E affine \in BOOLEAN : cxl_hmu_start(affine)
    \/ DeviceAdd

NextHmuCtl ==
    \/ \E attr \in Attrs : cxl_hmu_event_init(attr)
    \/ \E begin \in {"buf", "null"} : StartCall(begin)
    \/ ResetPoll
    \/ StartConfigure
    \/ EnablePoll
    \/ StopCall
    \/ DisablePoll
    \/ DeviceCompletes

NextHmuConc ==
    \/ \E affine \in BOOLEAN : cxl_hmu_start(affine)
    \/ DeviceAdd
    \/ IrqEnter
    \/ IrqNone
    \/ \E poll \in {"done", "timeout"} : StopEnter(poll)
    \/ \E c \in HmuCtx : UpdRegs(c)
    \/ \E c \in HmuCtx : UpdCopy(c)
    \/ \E c \in HmuCtx : UpdEnd(c)
    \/ \E c \in HmuCtx : UpdHead(c)
    \/ \E begin \in {"buf", "null"} : UpdBegin(begin)
    \/ IrqReturn
    \/ StopReturn

----------------------------------------------------------------------------
\* Initial states and specifications

InitTableState ==
    /\ page_hotness_hash = [b \in Bkts |-> <<>>]
    /\ page_hotness_lock = [b \in Bkts |-> NoOwner]
    /\ page_nid = [p \in Pfns |-> 2]
    /\ page_kind = [p \in Pfns |-> "lru"]
    /\ jiffies = 0
    /\ rec = [t \in Recorders |-> RecIdle]
    /\ kp = [n \in CpuNodes |-> KpIdle]
    /\ hist = [p \in Pfns |-> <<>>]
    /\ ksweep = [n \in CpuNodes |-> NoSweep]
    /\ budget = [calls |-> 0, sweeps |-> 0, ticks |-> 0, env |-> 0]
    /\ kthreads = NoKthreads

\* A record as three accesses from node nid within one window leave it, or one access.
SweeperRecord(pfn, nid, frequency) ==
    [pfn |-> pfn, frequency |-> frequency, last_update |-> 0, recency |-> 0,
     hot_node |-> nid]

\* The tables the threads find: empty, or with records of both nodes in bucket 0 and a
\* cold record in bucket 1.
SweeperTables ==
    {[b \in Bkts |-> <<>>],
     [b \in Bkts |-> IF b = hash_min(0)
                     THEN <<SweeperRecord(2, 1, 3), SweeperRecord(0, 0, 3)>>
                     ELSE IF b = hash_min(1) THEN <<SweeperRecord(1, 0, 1)>>
                     ELSE <<>>]}

InitSweeper ==
    /\ page_hotness_hash \in SweeperTables
    /\ page_hotness_lock = [b \in Bkts |-> NoOwner]
    /\ page_nid = [p \in Pfns |-> 2]
    /\ page_kind = [p \in Pfns |-> "lru"]
    /\ jiffies = 0
    /\ rec = [t \in Recorders |-> RecIdle]
    /\ kp = [n \in CpuNodes |-> KpIdle]
    /\ hist = [p \in Pfns |-> <<>>]
    /\ ksweep = [n \in CpuNodes |-> NoSweep]
    /\ budget = [calls |-> 0, sweeps |-> 0, ticks |-> 0, env |-> 0]
    /\ kthreads = NoKthreads
    /\ InitRingState
    /\ InitHmuState
    /\ lim = [calls |-> 0, sweeps |-> 0, ticks |-> 0, env |-> 0, pfns |-> {}, lag |-> 0,
              dts |-> {}, produce |-> 0]

InitTable ==
    /\ InitTableState
    /\ InitRingState
    /\ InitHmuState
    /\ lim = [calls |-> SerialCalls, sweeps |-> SerialSweeps, ticks |-> SerialTicks,
              env |-> 0, pfns |-> {0, 2}, lag |-> MaxLag, dts |-> {1}, produce |-> 0]

InitTableConc ==
    /\ InitTableState
    /\ InitRingState
    /\ InitHmuState
    /\ lim = [calls |-> ConcCalls, sweeps |-> ConcSweeps, ticks |-> ConcTicks,
              env |-> ConcEnv, pfns |-> Pfns, lag |-> 0, dts |-> {1, MaxJiffies},
              produce |-> 0]

InitRing ==
    /\ InitRingState
    /\ InitTableState
    /\ InitHmuState
    /\ lim = [calls |-> 0, sweeps |-> 0, ticks |-> 0, env |-> 0, pfns |-> {}, lag |-> 0,
              dts |-> {}, produce |-> 0]

InitHmu ==
    /\ InitHmuDevice(CounterWidths)
    /\ InitTableState
    /\ InitRingState
    /\ lim = [calls |-> 0, sweeps |-> 0, ticks |-> 0, env |-> 0, pfns |-> {}, lag |-> 0,
              dts |-> {}, produce |-> MaxProduce]

InitHmuConc ==
    /\ InitHmuState
    /\ InitTableState
    /\ InitRingState
    /\ lim = [calls |-> 0, sweeps |-> 0, ticks |-> 0, env |-> 0, pfns |-> {}, lag |-> 0,
              dts |-> {}, produce |-> ConcProduce]

InitHmuCtl ==
    /\ InitHmuDevice(CtlCounterWidths)
    /\ InitTableState
    /\ InitRingState
    /\ lim = [calls |-> 0, sweeps |-> 0, ticks |-> 0, env |-> 0, pfns |-> {}, lag |-> 0,
              dts |-> {}, produce |-> 0]

NextTable ==
    \/ \E pfn \in Pfns, nid \in CallNids, now \in 0 .. MaxJiffies :
            RecordAccess(pfn, nid, now)
    \/ \E n \in CpuNodes, failing \in SUBSET {0, 2} :
            Sweep(n, [p \in Pfns |-> IF p \in failing THEN 1 ELSE 0])
    \/ \E dt \in 1 .. MaxJiffies : Tick(dt)

NextTableConc ==
    \/ \E t \in Recorders, pfn \in Pfns, nid \in CallNids,
          now \in 0 .. MaxJiffies : RecordAccessCall(t, pfn, nid, now)
    \/ \E t \in Recorders : RecordAccessFilter(t)
    \/ \E t \in Recorders : RecordAccessLock(t)
    \/ \E t \in Recorders : RecordAccessLookup(t)
    \/ \E t \in Recorders : RecordAccessAlloc(t)
    \/ \E t \in Recorders : RecordAccessAllocFail(t)
    \/ \E t \in Recorders : RecordAccessUpdate(t)
    \/ \E t \in Recorders : RecordAccessUnlock(t)
    \/ \E n \in CpuNodes : SweepStart(n)
    \/ \E n \in CpuNodes : SweepLock(n)
    \/ \E n \in CpuNodes : SweepScan(n)
    \/ \E n \in CpuNodes, ret \in {0, 1} : SweepMigrate(n, ret)
    \/ \E n \in CpuNodes : SweepUnlock(n)
    \/ \E dt \in 1 .. MaxJiffies : Tick(dt)
    \/ \E pfn \in Pfns, nid \in Nodes, kind \in PageKinds : PageChange(pfn, nid, kind)

NextSweeper ==
    \/ \E ret \in {0, ERR_PTR(ENOMEM)}, oks \in SUBSET CpuNodes : KpromotedInit(ret, oks)
    \/ \E nid \in CpuNodes, ok \in BOOLEAN : KpromotedRun(nid, ok)
    \/ \E t \in KthreadIds : KthreadStop(t)
    \/ \E t \in KthreadIds : KpromotedLoop(t)
    \/ \E t \in KthreadIds : KpromotedSleep(t)
    \/ \E t \in KthreadIds : KpromotedWake(t)
    \/ \E t \in KthreadIds : KpromotedLock(t)
    \/ \E t \in KthreadIds, rets \in [Pfns -> {0, 1}] : KpromotedBucket(t, rets)
    \/ \E t \in KthreadIds : KpromotedUnlock(t)

SpecTable == InitTable /\ [][NextTable]_vars
SpecTableConc == InitTableConc /\ [][NextTableConc]_vars
SpecRing == InitRing /\ [][NextRing]_vars
SpecHmu == InitHmu /\ [][NextHmu]_vars
SpecHmuConc == InitHmuConc /\ [][NextHmuConc]_vars
SpecHmuCtl == InitHmuCtl /\ [][NextHmuCtl]_vars
SpecRingCpus == InitRing /\ [][NextRingCpus]_vars
SpecSweeper == InitSweeper /\ [][NextSweeper]_vars

\* The cpu that polls goes on polling; the unit need never complete an operation.
SpecHmuCtlFair ==
    SpecHmuCtl /\ WF_vars(ResetPoll) /\ WF_vars(EnablePoll) /\ WF_vars(DisablePoll)

\* Deferred work is scheduled fairly: an irq_work on a cpu's list is run, its function
\* returns, a pool that has the work queued runs it, and the handler goes on; samples
\* need not keep arriving.
SpecRingCpusFair ==
    /\ SpecRingCpus
    /\ \A c \in Cpus :
            /\ WF_vars(irq_work_run(c))
            /\ WF_vars(ibs_irq_handler(c))
            /\ WF_vars(process_one_work(c))
            /\ WF_vars(ibs_work_handler(c))

\* A runnable thread runs, time passes for a sleeping one, and a thread that waits for a
\* mutex gets it in the end (the kernel's mutex hands over to a waiter that has been
\* passed by); nobody need ask a thread to stop.
SpecSweeperFair ==
    /\ SpecSweeper
    /\ \A t \in KthreadIds :
            /\ WF_vars(KpromotedLoop(t))
            /\ WF_vars(KpromotedSleep(t))
            /\ WF_vars(KpromotedWake(t))
            /\ SF_vars(KpromotedLock(t))
            /\ WF_vars(\E rets \in [Pfns -> {0, 1}] : KpromotedBucket(t, rets))
            /\ WF_vars(KpromotedUnlock(t))

----------------------------------------------------------------------------
\* Properties of the hotness table

\* The records of page pfn, as <<bucket, index>>.
RecordsOf(pfn) ==
    {bi \in Bkts \X (1 .. Cardinality(Pfns) + 2) :
        /\ bi[2] <= Len(page_hotness_hash[bi[1]])
        /\ page_hotness_hash[bi[1]][bi[2]].pfn = pfn}

HasRecord(pfn) == RecordsOf(pfn) # {}

\* C1: in every reachable state, whatever the interleaving of the calls of
\* kpromoted_record_access (several of them for the same page included) and of the
\* sweeps, no page has more than one record in the table.
C1_AtMostOneRecordPerPage == \A pfn \in Pfns : Cardinality(RecordsOf(pfn)) <= 1

\* Two callers record the same page at once: one waits for the bucket's mutex while the
\* other, holding it, has updated the page's record.
C1_Witness ==
    /\ rec[1].pc = "unlock" /\ rec[2].pc = "lock"
    /\ rec[1].pfn = rec[2].pfn
    /\ HasRecord(rec[1].pfn)

\* The calls in hist[pfn] all fall within one window of the first.
WithinOneWindow(h) ==
    \A i \in DOMAIN h :
        h[1].now <= h[i].now /\ h[i].now - h[1].now <= msecs_to_jiffies(KPROMOTED_FREQ_WINDOW)

\* C2: after n >= 1 eligible calls for one page, all within one window of the first and
\* with no sweep in between, the record's frequency is n; the first call leaves
\* frequency = 1 and last_update = now.
C2_FrequencyCountsCalls ==
    \A pfn \in Pfns :
        (hist[pfn] # <<>> /\ WithinOneWindow(hist[pfn])) =>
            \A bi \in RecordsOf(pfn) :
                LET phi == page_hotness_hash[bi[1]][bi[2]]
                IN  /\ phi.frequency = Len(hist[pfn])
                    /\ Len(hist[pfn]) = 1 => phi.last_update = hist[pfn][1].now

\* The entry the sweeper of node n is at, when it is at one.
AtEntry(n) ==
    /\ kp[n].pc \in {"scan", "migrate"}
    /\ kp[n].idx \in DOMAIN page_hotness_hash[kp[n].bkt]

Entry(n) == page_hotness_hash[kp[n].bkt][kp[n].idx]

\* The sweeper of node n takes the step that classifies the entry it is at.
Classifies(n) ==
    /\ kp[n].pc = "scan" /\ AtEntry(n)
    /\ Entry(n).hot_node = n
    /\ \/ kp'[n] # kp[n]
       \/ page_hotness_hash'[kp[n].bkt] # page_hotness_hash[kp[n].bkt]

\* The sweeper of node n returns from kpromote_page.
Migrated(n) == kp[n].pc = "migrate" /\ kp'[n].pc = "scan"

\* The result of the call of kpromote_page that step made.
MigrateRet(n) == ksweep'[n].calls[Len(ksweep'[n].calls)].ret

\* The record of the entry is gone from its bucket after the step.
EntryRemoved(n) ==
    /\ Len(page_hotness_hash'[kp[n].bkt]) = Len(page_hotness_hash[kp[n].bkt]) - 1
    /\ \A i \in DOMAIN page_hotness_hash'[kp[n].bkt] :
            page_hotness_hash'[kp[n].bkt][i].pfn # Entry(n).pfn

\* C3: the sweep classifies a record PROMOTE (goes on to call kpromote_page) if and only
\* if the page is online, not a device page and on the LRU, its frequency is at least
\* the threshold, it was updated no longer than two windows ago, and hot_node is not the
\* node the page is on; otherwise the record is dropped.
C3_PromoteIff ==
    [][\A n \in CpuNodes :
        Classifies(n) =>
            LET phi == Entry(n)
                promote == /\ page_kind[phi.pfn] = "lru"
                           /\ phi.frequency >= KPRMOTED_FREQ_THRESHOLD
                           /\ jiffies - phi.last_update
                                <= 2 * msecs_to_jiffies(KPROMOTED_FREQ_WINDOW)
                           /\ phi.hot_node # page_nid[phi.pfn]
            IN  /\ (kp'[n].pc = "migrate") <=> promote
                /\ ~promote => EntryRemoved(n)]_vars

\* A sweeper has classified a record PROMOTE and is about to call kpromote_page.
C3_Witness == \E n \in CpuNodes : kp[n].pc = "migrate" /\ AtEntry(n)

\* C4: a page on another node than n that got three accesses from n at increasing
\* times within one window has, after the next sweep of n, seen exactly one call
\* kpromote_page(page -> n) and has no record, whatever the call returned.
C4_ThreeAccessesPromote ==
    \A n \in CpuNodes : \A pfn \in Pfns :
        (ksweep[n].done /\ pfn \in ksweep[n].armed) =>
            /\ Cardinality({i \in DOMAIN ksweep[n].calls :
                    ksweep[n].calls[i].pfn = pfn /\ ksweep[n].calls[i].nid = n}) = 1
            /\ ~HasRecord(pfn)

C9_FilteredCallLeavesTable ==
    [][\A t \in Recorders :
        (/\ rec[t].pc = "filter"
         /\ rec'[t] # rec[t]
         /\ \/ page_nid[rec[t].pfn] \in CpuNodes
            \/ page_kind[rec[t].pfn] # "lru") =>
            /\ rec'[t].pc = "idle"
            /\ page_hotness_hash' = page_hotness_hash
            /\ page_hotness_lock' = page_hotness_lock]_vars

\* A call for a top-tier page that has a record is about to be checked.
C9_Witness ==
    \E t \in Recorders :
        /\ rec[t].pc = "filter"
        /\ page_nid[rec[t].pfn] \in CpuNodes
        /\ HasRecord(rec[t].pfn)

\* The buckets whose mutex the task holds.
Held(task) == {b \in Bkts : page_hotness_lock[b] = task}

\* C18: no bucket mutex is held across a call that may sleep: the sweeper does not hold
\* one while kpromote_page runs, and no caller of kpromoted_record_access holds one
\* while kzalloc(GFP_KERNEL) runs.
C18_NoLockAcrossBlockingCall ==
    /\ \A n \in CpuNodes : kp[n].pc = "migrate" => Held(KpTask(n)) = {}
    /\ \A t \in Recorders : rec[t].pc = "alloc" => Held(RecTask(t)) = {}

\* C19: a task holds at most one bucket mutex, and none while it waits for one; the
\* mutex a sweeper holds is that of the bucket it is at; a caller of
\* kpromoted_record_access that waits for a mutex nobody holds can take it, whichever
\* other bucket a sweeper holds; and a sweep starts at bucket 0, takes the mutex of
\* each bucket in turn, moves to the next bucket only after its mutex_unlock and ends
\* only after the last bucket.
C19_OneLockAtATime ==
    /\ [](/\ \A t \in Recorders :
                /\ Cardinality(Held(RecTask(t))) <= 1
                /\ rec[t].pc = "lock" => Held(RecTask(t)) = {}
                /\ (rec[t].pc = "lock" /\ page_hotness_lock[hash_min(rec[t].pfn)] = NoOwner)
                        => ENABLED RecordAccessLock(t)
          /\ \A n \in CpuNodes :
                /\ Cardinality(Held(KpTask(n))) <= 1
                /\ kp[n].pc = "lock" => Held(KpTask(n)) = {}
                /\ Held(KpTask(n)) \subseteq {kp[n].bkt})
    /\ [][\A n \in CpuNodes :
            /\ (kp[n].pc = "wait" /\ kp'[n] # kp[n]) =>
                    kp'[n].pc = "lock" /\ kp'[n].bkt = 0
            /\ (kp[n].pc = "lock" /\ kp'[n] # kp[n]) =>
                    /\ kp'[n].pc = "scan" /\ kp'[n].bkt = kp[n].bkt
                    /\ page_hotness_lock'[kp[n].bkt] = KpTask(n)
            /\ (kp[n].pc # "wait" /\ kp'[n].pc # "wait" /\ kp'[n].bkt # kp[n].bkt) =>
                    /\ kp[n].pc = "unlock" /\ kp'[n].pc = "lock"
                    /\ kp'[n].bkt = kp[n].bkt + 1
            /\ (kp[n].pc # "wait" /\ kp'[n].pc = "wait") =>
                    kp[n].pc = "unlock" /\ kp[n].bkt = NrBkts - 1]_vars

\* A sweeper holds the mutex of the last bucket while a caller of
\* kpromoted_record_access is about to take the free mutex of another bucket.
C19_Witness ==
    \E n \in CpuNodes, t \in Recorders :
        /\ kp[n].pc \in {"scan", "migrate"}
        /\ kp[n].bkt = NrBkts - 1
        /\ Held(KpTask(n)) = {kp[n].bkt}
        /\ rec[t].pc = "lock"
        /\ hash_min(rec[t].pfn) # kp[n].bkt
        /\ page_hotness_lock[hash_min(rec[t].pfn)] = NoOwner

\* C20: a call of kpromoted_record_access whose kzalloc fails reads through no invalid
\* pointer and returns with the mutex released; a caller that has returned holds no
\* mutex.
C20_AllocFailureIsNotFatal ==
    \A t \in Recorders :
        /\ rec[t].pc # "oops"
        /\ rec[t].phi = ERR_PTR(ENOMEM) => Held(RecTask(t)) = {}
        /\ rec[t].pc = "idle" => Held(RecTask(t)) = {}

\* The record of page pfn, when it has one.
RecordOf(pfn) ==
    LET bi == CHOOSE bi \in RecordsOf(pfn) : TRUE
    IN  page_hotness_hash[bi[1]][bi[2]]

\* A call of kpromoted_record_access has updated the record page pfn had already.
UpdatesRecord(pfn) == HasRecord(pfn) /\ Len(hist'[pfn]) = Len(hist[pfn]) + 1

\* The time and the node that call passed.
LastCall(pfn) == hist[pfn][Len(hist[pfn])]

\* C25: a call at time now for a page that has a record starts a new window
\* (frequency = 1, last_update = now) when now - last_update is greater than the window,
\* and otherwise adds 1 to frequency and leaves last_update alone; either way recency
\* becomes now.
C25_WindowRule ==
    [][\A pfn \in Pfns :
        UpdatesRecord(pfn) =>
            LET old == RecordOf(pfn)
                new == RecordOf(pfn)'
                now == LastCall(pfn)'.now
            IN  /\ IF ulong_sub(now, old.last_update)
                        > msecs_to_jiffies(KPROMOTED_FREQ_WINDOW)
                   THEN new.frequency = 1 /\ new.last_update = now
                   ELSE /\ new.frequency = old.frequency + 1
                        /\ new.last_update = old.last_update
                /\ new.recency = now]_vars

\* C26: the hot_node of a page's record is the node the most recent call for the page
\* passed, or the fallback node when that call passed NUMA_NO_NODE, whatever the calls
\* before it passed.
C26_HotNodeOfLastCall ==
    \A pfn \in Pfns :
        (HasRecord(pfn) /\ hist[pfn] # <<>>) =>
            RecordOf(pfn).hot_node = IF LastCall(pfn).nid = NUMA_NO_NODE
                                     THEN FALLBACK_NODE
                                     ELSE LastCall(pfn).nid

\* A page's record after a call from node 0 followed, in the same window, by a call
\* that passed NUMA_NO_NODE.
C26_Witness ==
    \E pfn \in Pfns :
        /\ HasRecord(pfn) /\ Len(hist[pfn]) >= 2
        /\ hist[pfn][Len(hist[pfn]) - 1].nid = 0
        /\ LastCall(pfn).nid = NUMA_NO_NODE
        /\ RecordOf(pfn).frequency >= 2
        /\ RecordOf(pfn).hot_node = FALLBACK_NODE

\* The records of a bucket that are not node n's.
RecordsOfOtherNodes(list, n) == SelectSeq(list, LAMBDA phi : phi.hot_node # n)

\* The sweeper of node n takes a step of its scan of a bucket.
SweeperStep(n) ==
    /\ kp[n].pc \in {"scan", "migrate"}
    /\ \/ kp'[n] # kp[n]
       \/ page_hotness_hash'[kp[n].bkt] # page_hotness_hash[kp[n].bkt]

\* C27: a sweep of node n leaves every record whose hot_node is not n where and as it
\* is and calls kpromote_page for none of them: at such a record it moves on to the
\* next entry and does nothing else.
C27_SweepLeavesOtherNodes ==
    [][\A n \in CpuNodes :
        SweeperStep(n) =>
            /\ \A b \in Bkts :
                    RecordsOfOtherNodes(page_hotness_hash'[b], n)
                        = RecordsOfOtherNodes(page_hotness_hash[b], n)
            /\ (AtEntry(n) /\ Entry(n).hot_node # n) =>
                    /\ page_hotness_hash' = page_hotness_hash
                    /\ ksweep'[n].calls = ksweep[n].calls
                    /\ page_nid' = page_nid
                    /\ kp'[n] = [kp[n] EXCEPT !.idx = @ + 1]]_vars

\* The sweeper of a node has passed a record of another node, which is still in the
\* bucket behind it.
C27_Witness ==
    \E n \in CpuNodes :
        /\ kp[n].pc = "scan" /\ kp[n].idx > 1
        /\ kp[n].idx - 1 \in DOMAIN page_hotness_hash[kp[n].bkt]
        /\ page_hotness_hash[kp[n].bkt][kp[n].idx - 1].hot_node # n
        /\ ksweep[n].calls = <<>>

\* The pages a sweep has called kpromote_page for, in order.
CalledPfns(n) == [i \in DOMAIN ksweep[n].calls |-> ksweep[n].calls[i].pfn]

\* C28: kpromote_page is called only for a record the sweep has classified PROMOTE, at
\* most once for a record in one sweep, and the target of the call is the node swept,
\* which is the record's hot_node; a record classified otherwise is removed without a
\* call.
C28_MigratorCalls ==
    /\ [](\A n \in CpuNodes :
            /\ \A i, j \in DOMAIN CalledPfns(n) :
                    CalledPfns(n)[i] = CalledPfns(n)[j] => i = j
            /\ \A i \in DOMAIN ksweep[n].calls : ksweep[n].calls[i].nid = n)
    /\ [][\A n \in CpuNodes :
            /\ (kp[n].pc # "migrate" /\ kp'[n].pc = "migrate") =>
                    /\ Classifies(n)
                    /\ page_should_be_promoted(Entry(n), jiffies)
                    /\ ksweep'[n].calls = ksweep[n].calls
            /\ (kp[n].pc # "wait" /\ ksweep'[n].calls # ksweep[n].calls) =>
                    /\ kp[n].pc = "migrate" /\ AtEntry(n)
                    /\ Entry(n).hot_node = n
                    /\ Len(ksweep'[n].calls) = Len(ksweep[n].calls) + 1
                    /\ ksweep'[n].calls[Len(ksweep'[n].calls)].pfn = Entry(n).pfn
                    /\ ksweep'[n].calls[Len(ksweep'[n].calls)].nid = n
            /\ (Classifies(n) /\ ~page_should_be_promoted(Entry(n), jiffies)) =>
                    /\ EntryRemoved(n)
                    /\ ksweep'[n].calls = ksweep[n].calls
                    /\ page_nid' = page_nid]_vars

\* A sweep is over in which kpromote_page failed for a page: the record is still in the
\* table and the sweep called kpromote_page for it once.
C28_Witness ==
    \E n \in CpuNodes :
        /\ ksweep[n].done
        /\ \E i \in DOMAIN ksweep[n].calls :
                /\ ksweep[n].calls[i].ret # 0
                /\ HasRecord(ksweep[n].calls[i].pfn)

----------------------------------------------------------------------------
\* Properties of the sample ring

\* The pushes before the first pop: how many, and how many of them were dropped.
Burst == IF ibs_g.burst.open
         THEN [n |-> Len(ibs_g.pushed), dropped |-> ibs_g.dropped]
         ELSE [n |-> ibs_g.burst.n, dropped |-> ibs_g.burst.dropped]

\* The first n samples popped are the first n samples pushed.
PoppedArePushed(n) ==
    \A i \in 1 .. n :
        i <= Len(ibs_g.popped) =>
            /\ ibs_g.popped[i].pfn = ibs_g.pushed[i].pfn
            /\ ibs_g.popped[i].time = ibs_g.pushed[i].time

PfnTime(q) == [i \in DOMAIN q |-> [pfn |-> q[i].pfn, time |-> q[i].time]]

\* The slots from tail up to head.
RingContent ==
    [i \in 1 .. ((ibs_head - ibs_tail + IBS_NR_SAMPLES) % IBS_NR_SAMPLES) |->
        ibs_samples[(ibs_tail + i - 1) % IBS_NR_SAMPLES]]

\* The sample a pop has taken out of the ring and not yet returned.
PopPending ==
    IF pop.pc = "body" /\ pop.advanced
    THEN <<IF pop.copied THEN pop.s ELSE ibs_samples[pop.slot]>>
    ELSE <<>>

\* C10: with ibs_push_sample running between any two steps of ibs_pop_sample and no
\* lock, the samples accepted are, in the order they were accepted, those popped, then
\* the one being popped, then those in the ring (each accepted sample is returned once
\* and in order); no pop reads a slot that was never written; a push leaves the slot
\* being popped alone; a push writes head and the slot at head only, a pop writes tail
\* only.
C10_RingWithoutLock ==
    /\ [](/\ PfnTime(ibs_g.accepted) = PfnTime(ibs_g.popped \o PopPending \o RingContent)
          /\ ~ibs_g.unwritten)
    /\ [][/\ ibs_head' # ibs_head =>
                /\ Len(ibs_g.pushed') = Len(ibs_g.pushed) + 1
                /\ ibs_tail' = ibs_tail /\ pop' = pop
                /\ \A i \in Slots : i # ibs_head => ibs_samples'[i] = ibs_samples[i]
          /\ ibs_samples' # ibs_samples =>
                /\ ibs_head' # ibs_head
                /\ pop.pc = "body" => ibs_samples'[pop.slot] = ibs_samples[pop.slot]
          /\ ibs_tail' # ibs_tail =>
                /\ pop.pc = "body"
                /\ ibs_head' = ibs_head /\ ibs_samples' = ibs_samples
                /\ ibs_g' = ibs_g]_vars

\* The ring has wrapped, a pop has moved tail before it copied the slot, and pushes
\* have come between the steps of a pop.
C10_Witness ==
    /\ ibs_g.preempted
    /\ Len(ibs_g.popped) >= IBS_NR_SAMPLES
    /\ pop.pc = "body" /\ pop.advanced /\ ~pop.copied
    /\ ibs_head # ibs_tail

\* C11: the i-th sample ibs_work_handler hands to kpromoted_record_access is the i-th
\* sample ibs_push_sample accepted, with the pfn, the nid and the time it was pushed
\* with.
C11_DispatchedSampleIsPushed ==
    \A i \in DOMAIN ibs_g.popped : ibs_g.popped[i] = ibs_g.accepted[i]

\* C12: a call of ibs_push_sample is always possible (it waits for nothing), and one
\* that finds the ring full leaves head, tail, every slot and the work handler as they
\* were, stores nothing (returns 0), counts HWHINT_BUFFER_FULL once and queues no work.
C12_PushOnFullRingDrops ==
    /\ [](Len(ibs_g.pushed) < MaxPush =>
            ENABLED (\E pfn \in SamplePfns, nid \in SampleNids :
                        ibs_push_sample(pfn, nid, Len(ibs_g.pushed) + 1)))
    /\ [][(/\ Len(ibs_g.pushed') = Len(ibs_g.pushed) + 1
           /\ (ibs_head + 1) % IBS_NR_SAMPLES = ibs_tail) =>
                /\ ibs_head' = ibs_head /\ ibs_tail' = ibs_tail
                /\ ibs_samples' = ibs_samples
                /\ pop' = pop
                /\ ibs_g.accepted' = ibs_g.accepted
                /\ ibs_g.dropped' = ibs_g.dropped + 1
                /\ ibs_g.queued' = ibs_g.queued]_vars

\* A sample was dropped by a ring that had wrapped, while a pop was under way.
C12_Witness ==
    /\ ibs_g.dropped > 0
    /\ (ibs_head + 1) % IBS_NR_SAMPLES = ibs_tail
    /\ ibs_tail > 0
    /\ pop.pc = "check"
    /\ ibs_g.pushed[Len(ibs_g.pushed)] # ibs_g.accepted[Len(ibs_g.accepted)]

----------------------------------------------------------------------------
\* Properties of the hotlist drain

\* The entries the last drain copied, in the order it wrote them.
DrainedEntries == SelectSeq(hmu_g.drain.words, LAMBDA w : w.kind = "entry")

DrainedHeaders == SelectSeq(hmu_g.drain.words, LAMBDA w : w.kind = "header0")

\* The slots from head to the end of the hotlist, then from its start up to tail.
WrapOrder(head, tail) ==
    [i \in 1 .. ((HotlistSize - head) + tail) |->
        IF i <= HotlistSize - head THEN head + i - 1 ELSE i - (HotlistSize - head) - 1]

C13_HeadNeverPassesUnstagedEntry ==
    hmu_g.drain.done =>
        LET d == hmu_g.drain
            passed == (hmu_head - d.head + HotlistSize) % HotlistSize
        IN  \A i \in 1 .. passed :
                /\ i <= Len(DrainedEntries)
                /\ DrainedEntries[i].slot = (d.head + i - 1) % HotlistSize
                /\ LET w == (d.pos \div HOTLIST_ENTRY_SIZE) + 1 + i
                   IN  w < AuxWords /\ aux_mem[w] = DrainedEntries[i]

\* C14: after a drain that copied k >= 1 entries the head register is the head the
\* drain found plus k, modulo the size of the hotlist, also when the copy filled the
\* AUX buffer or was cut short by it.
C14_HeadAdvancedToCopiedBoundary ==
    (hmu_g.drain.done /\ Len(DrainedEntries) >= 1) =>
        hmu_head = (hmu_g.drain.head + Len(DrainedEntries)) % HotlistSize

C16_StopDrainsAndHandsOff ==
    [][(hmu_status.enabled /\ ~hmu_status'.enabled /\ hmu_session = "active") =>
            /\ hmu_g'.drain.done /\ hmu_g'.drain.stop
            /\ hmu_g'.drain.head = hmu_head /\ hmu_g'.drain.tail = hmu_tail
            /\ hmu_session' # "active"
            /\ handle_head' = handle_head
                    + Len(hmu_g'.drain.words) * HOTLIST_ENTRY_SIZE]_vars

\* C17: cxl_hmu_irq and cxl_hmu_stop are never inside cxl_hmu_update_aux at the same
\* time, neither one within the other nor side by side on two cpus.
C17_DrainsNeverOverlap == ~(InUpdateAux("irq") /\ InUpdateAux("stop"))

\* The entries that fit in the buffer behind a header written at pos.
EntriesFitting(pos) ==
    IF AuxLength - pos < HEADER_SIZE THEN 0
    ELSE (AuxLength - pos - HEADER_SIZE) \div HOTLIST_ENTRY_SIZE

\* C30: a drain that finds tail > head stages min(tail - head, entries that fit behind
\* a header in what is left of the buffer) entries from head on in the device's order;
\* before them it stages a header word whose bits 15..0 are the number of entries that
\* follow and whose bits 23..16 are the counter width, and the marker word.
C30_ContiguousDrain ==
    LET d == hmu_g.drain
        n == min_t(d.tail - d.head, EntriesFitting(d.pos))
        at == d.pos \div HOTLIST_ENTRY_SIZE
    IN  (d.done /\ d.tail > d.head) =>
            /\ Len(DrainedEntries) = n
            /\ \A i \in DOMAIN DrainedEntries : DrainedEntries[i].slot = d.head + i - 1
            /\ n > 0 =>
                /\ Len(d.words) = n + 2
                /\ d.words[1] = [kind |-> "header0", slot |-> 0,
                                 hi |-> hmu_status.width, val |-> n]
                /\ d.words[2] = CHMU_HEADER1
                /\ \A i \in 1 .. n : d.words[i + 2].kind = "entry"
            /\ n = 0 => d.words = <<>>
            /\ \A i \in DOMAIN d.words :
                    /\ at + i - 1 < AuxWords
                    /\ aux_mem[at + i - 1] = d.words[i]

\* C30 for the drains that start with room for a header.
C30_WithRoomForHeader == hmu_g.drain.pos + HEADER_SIZE <= AuxLength => C30_ContiguousDrain

\* A step that runs cxl_hmu_update_aux: an interrupt with a status bit set, or
\* cxl_hmu_stop after the unit completed the disable.
DrainStep ==
    \/ /\ hmu_status.bits # {}
       /\ \E begin \in perf_aux_output_begin_results : cxl_hmu_irq(begin)
    \/ cxl_hmu_stop("done")

\* C31: a drain that finds tail = head copies nothing: no header and no entry is
\* written, the AUX buffer and buf->pos are as they were, perf_aux_output_end is given
\* the size 0 (handle->head does not move) and the head register keeps its value.
C31_EmptyDrainCopiesNothing ==
    [][(DrainStep /\ hmu_head = hmu_tail) =>
            /\ hmu_g'.drain.done /\ hmu_g'.drain.words = <<>>
            /\ aux_mem' = aux_mem
            /\ buf_pos' = buf_pos
            /\ handle_head' = handle_head
            /\ hmu_head' = hmu_head]_vars

\* A drain found the hotlist empty, with words of earlier drains in the buffer.
C31_Witness ==
    /\ hmu_g.drain.done
    /\ hmu_g.drain.head = hmu_g.drain.tail
    /\ hmu_g.drain.pos > 0
    /\ hmu_g.drain.end = hmu_g.drain.pos

\* C32: buf->pos is never beyond buf->length, and no drain writes a word outside the
\* AUX buffer: what a drain writes from its cursor on ends at or before buf->length,
\* also when the drain starts with fewer than 16 bytes left.
C32_StagingBounds ==
    /\ 0 <= buf_pos /\ buf_pos <= AuxLength
    /\ hmu_g.drain.done =>
            /\ hmu_g.drain.pos + Len(hmu_g.drain.words) * HOTLIST_ENTRY_SIZE <= AuxLength
            /\ hmu_g.drain.end <= AuxLength

\* A step changes what a drain changes: the AUX buffer, the head register,
\* handle->head, or buf->pos other than by cxl_hmu_start.
Drained ==
    \/ aux_mem' # aux_mem
    \/ hmu_head' # hmu_head
    \/ handle_head' # handle_head
    \/ (buf_pos' # buf_pos /\ hmu_status'.enabled = hmu_status.enabled)

\* C34: the hotlist is drained only by cxl_hmu_irq after it read OVRFLW or FILLTHRESH
\* set in STATUS, and then it writes back the status it read, which clears exactly
\* the bits it saw, and returns IRQ_HANDLED; or by cxl_hmu_stop on a unit that STATUS
\* shows enabled.  cxl_hmu_irq with neither bit set returns IRQ_NONE and changes
\* neither the AUX buffer, the cursor, the head register nor STATUS.
C34_DrainOnlyOnFlagOrStop ==
    [][/\ Drained => \E c \in HmuCtx : InUpdateAux(c) /\ hmu_run'[c] # hmu_run[c]
       /\ (hmu_run.irq.pc = "idle" /\ hmu_run'.irq.pc # "idle") =>
                /\ hmu_status.bits # {}
                /\ hmu_run'.irq.status = hmu_status.bits
       /\ (hmu_run.stop.pc = "idle" /\ InUpdateAux("stop")') => hmu_status.enabled
       /\ (hmu_run.irq.pc # "idle" /\ hmu_run'.irq.pc = "idle") =>
                /\ hmu_run.irq.status # {}
                /\ hmu_status' = [hmu_status EXCEPT !.bits = @ \ hmu_run.irq.status]
                /\ hmu_g'.irq = "IRQ_HANDLED"
       /\ (hmu_g'.irq # hmu_g.irq /\ hmu_g'.irq = "IRQ_HANDLED") =>
                hmu_run.irq.pc = "ret"
       /\ (hmu_g'.irq # hmu_g.irq /\ hmu_g'.irq = "IRQ_NONE") =>
                /\ hmu_status.bits = {}
                /\ UNCHANGED <<aux_mem, buf_pos, hmu_head, handle_head, hmu_status,
                               hmu_session, hmu_run>>]_vars

\* The handler has drained and returned IRQ_HANDLED; a bit the unit set after the
\* handler read STATUS is still set.
C34_Witness ==
    /\ hmu_g.irq = "IRQ_HANDLED"
    /\ hmu_run.irq.pc = "idle"
    /\ hmu_status.bits # {}
    /\ handle_head > 0

----------------------------------------------------------------------------
\* Properties of configuring, starting and stopping the unit

\* C21: when cxl_hmu_event_init returns an error, the tracking parameters in hmu
\* (reporting_mode, randomized_ds, m2s_requests_to_track, hot_thresh, hot_gran,
\* ds_factor_pow2, epoch_scale, epoch_mult, range_base, range_num) are what they were
\* before the call.
C21_RejectionLeavesParameters ==
    (hmu_ctl.init.done /\ hmu_ctl.init.ret # 0) => hmu_ctl.hmu = hmu_ctl.init.hmu

\* cxl_hmu_start has returned from the test of the threshold against the counter width.
ThresholdRejected == hmu_ctl.start.done /\ hmu_ctl.start.line = 531

\* C22: when cxl_hmu_start rejects a threshold that is too large for the counter
\* width, CFG1, the range bitmap and CFG2 are as they were before the call and no AUX
\* transaction is left open.
C22_ThresholdRejectionWritesNothing ==
    ThresholdRejected =>
        /\ hmu_ctl.regs.cfg1 = hmu_ctl.start.regs.cfg1
        /\ hmu_ctl.regs.bitmap = hmu_ctl.start.regs.bitmap
        /\ hmu_ctl.regs.cfg2 = hmu_ctl.start.regs.cfg2
        /\ hmu_session # "active"

Polling == hmu_ctl.pc \in {"reset_poll", "enable_poll", "disable_poll"}

\* The cpu takes a turn of the loop of a poll.
PollTurn == Polling /\ (hmu_ctl'.pc # hmu_ctl.pc \/ hmu_ctl'.elapsed # hmu_ctl.elapsed)

\* C23: each of the three polls of STATUS ends: a turn that finds an operation in
\* progress delays by the fixed delay and goes round, and only while the timeout has
\* not passed, so that the turns are bounded; the poll ends with success only when it
\* reads OP_INPROG = 0 and otherwise with -ETIMEDOUT once the timeout has passed, which
\* fails cxl_hmu_start or cxl_hmu_stop; and a poll that has begun ends whether or not
\* the unit ever completes the operation.
C23_PollsTerminate ==
    /\ [](Polling => hmu_ctl.elapsed <= PollTimeoutUs + POLL_DELAY_US)
    /\ [][PollTurn =>
            IF hmu_ctl'.pc = hmu_ctl.pc
            THEN /\ hmu_status.inprog # "NONE"
                 /\ hmu_ctl.elapsed <= PollTimeoutUs
                 /\ hmu_ctl'.elapsed = hmu_ctl.elapsed + POLL_DELAY_US
            ELSE IF hmu_status.inprog = "NONE"
            THEN CASE hmu_ctl.pc = "reset_poll" -> hmu_ctl'.pc = "configure"
                   [] hmu_ctl.pc = "enable_poll" ->
                        /\ hmu_ctl'.pc = "idle"
                        /\ hmu_ctl'.start.done /\ hmu_ctl'.start.ret = 0
                   [] hmu_ctl.pc = "disable_poll" ->
                        /\ hmu_ctl'.pc = "idle"
                        /\ hmu_ctl'.stop.done /\ hmu_ctl'.stop.line = 595
            ELSE /\ hmu_ctl.elapsed > PollTimeoutUs
                 /\ hmu_ctl'.pc = "idle"
                 /\ IF hmu_ctl.pc = "disable_poll"
                    THEN hmu_ctl'.stop.done /\ hmu_ctl'.stop.line = 589
                    ELSE /\ hmu_ctl'.start.done
                         /\ hmu_ctl'.start.ret = 0 - ETIMEDOUT]_vars
    /\ (Polling ~> ~Polling)

\* A poll has gone on beyond the timeout, the unit not having completed the operation.
C23_Witness ==
    /\ Polling
    /\ hmu_status.inprog # "NONE"
    /\ hmu_ctl.elapsed > PollTimeoutUs

\* C24: a poll that times out in cxl_hmu_start leaves the event marked stopped and no
\* AUX transaction open, and a poll that times out in cxl_hmu_stop leaves the caller
\* with something to tell it from a stop that succeeded: what the caller finds after
\* the one (cxl_hmu_stop returns nothing, so that is event->hw.state) it never finds
\* after the other.
C24_TimeoutIsSurfaced ==
    /\ (hmu_ctl.start.done /\ hmu_ctl.start.line \in {496, 548}) =>
            /\ hmu_ctl.start.ret # 0
            /\ "PERF_HES_STOPPED" \in hmu_ctl.state
            /\ hmu_session # "active"
    /\ hmu_ctl.seen.failed \cap hmu_ctl.seen.stopped = {}

----------------------------------------------------------------------------
\* Properties of the rings of several cpus

\* At least k samples were accepted into the ring of cpu c.
Accepted(c, k) == Len(ibs_cpus.accepted[c]) >= k

\* At least k samples of the ring of cpu c were handed to kpromoted_record_access.
Applied(c, k) == Len(ibs_cpus.applied[c]) >= k

\* C29: with the deferred work scheduled fairly, every sample accepted into the ring
\* of any cpu is eventually popped and handed to kpromoted_record_access, whether or
\* not another sample ever arrives on that cpu.
C29_EverySampleIsApplied ==
    \A c \in Cpus : \A k \in 1 .. MaxNmis : Accepted(c, k) ~> Applied(c, k)

\* A configuration register of cxl_hmu_start's second half gets a new value: CFG1, a
\* word of the range bitmap, CFG2, or CFG0 with the enable bit.
ConfigWritten ==
    \/ hmu_ctl'.regs.cfg1 # hmu_ctl.regs.cfg1
    \/ hmu_ctl'.regs.bitmap # hmu_ctl.regs.bitmap
    \/ hmu_ctl'.regs.cfg2 # hmu_ctl.regs.cfg2
    \/ (hmu_ctl'.regs.cfg0.enable /\ hmu_ctl'.regs.cfg0 # hmu_ctl.regs.cfg0)

\* C33: CFG1, the range bitmap, CFG2 and CFG0 with the enable bit are written only
\* by cxl_hmu_start after it wrote the reset and its poll read OP_INPROG = 0, with no
\* operation in progress at the write; cxl_hmu_start returns 0 only from the poll for
\* the enable, with no operation in progress and the unit enabled; and cxl_hmu_stop
\* drains (and writes the head register) only after its poll read the disable complete.
C33_RegisterProtocol ==
    /\ [](hmu_ctl.pc = "configure" =>
            /\ hmu_status.inprog = "NONE"
            /\ hmu_ctl.regs.cfg0.reset_counters)
    /\ []((hmu_ctl.start.done /\ hmu_ctl.start.ret = 0) => hmu_ctl.start.line = 551)
    /\ [][/\ StartConfigure => hmu_status.inprog = "NONE"
          /\ ConfigWritten => StartConfigure
          /\ (EnablePoll /\ hmu_ctl'.start.done /\ hmu_ctl'.start.ret = 0) =>
                (hmu_status.inprog = "NONE" /\ hmu_status.enabled)
          /\ (hmu_head' # hmu_head \/ hmu_g' # hmu_g \/ handle_head' # handle_head) =>
                /\ DisablePoll
                /\ hmu_status.inprog = "NONE" /\ ~hmu_status.enabled]_vars

\* cxl_hmu_start returned 0 with the unit enabled, and a later cxl_hmu_stop drained.
C33_Witness ==
    /\ hmu_ctl.start.done /\ hmu_ctl.start.ret = 0
    /\ hmu_ctl.stop.done /\ hmu_ctl.stop.line = 595
    /\ hmu_g.drain.done /\ hmu_g.drain.stop
    /\ ~hmu_status.enabled

\* C35: cxl_hmu_start on a unit that STATUS shows enabled fails with -EBUSY and the
\* event is marked stopped; no AUX transaction is begun, no reset is written, and no
\* configuration register, CFG0 included, is written; and -EBUSY is returned in no
\* other case.
C35_StartOnEnabledUnit ==
    /\ []((hmu_ctl.start.done /\ hmu_ctl.start.ret = 0 - EBUSY) =>
            (hmu_ctl.start.enabled /\ hmu_ctl.start.line = 469))
    /\ [][(hmu_ctl'.n.starts # hmu_ctl.n.starts /\ hmu_status.enabled) =>
            /\ hmu_ctl'.start.done /\ hmu_ctl'.start.ret = 0 - EBUSY
            /\ hmu_ctl'.pc = "idle"
            /\ "PERF_HES_STOPPED" \in hmu_ctl'.state
            /\ hmu_ctl'.regs = hmu_ctl.regs
            /\ UNCHANGED <<hmu_status, hmu_session, buf_pos, handle_head, aux_mem,
                           hmu_head>>]_vars

\* cxl_hmu_start has returned -EBUSY while an AUX transaction of an earlier call is
\* open.
C35_Witness ==
    /\ hmu_ctl.start.done /\ hmu_ctl.start.ret = 0 - EBUSY
    /\ hmu_status.enabled
    /\ hmu_ctl.regs.cfg0.enable

\* The last call of cxl_hmu_event_init returned 0 for an event that left the
\* downsampling factor at 0, on a unit that does not support the factor 2^0.
DefaultDownsampling ==
    /\ hmu_ctl.init.done /\ hmu_ctl.init.ret = 0
    /\ hmu_ctl.init.attr.downsampling_factor = 0
    /\ 0 \notin CHMU_CAP.downsamp

\* C38: when the event leaves the downsampling factor at its default 0 and the unit
\* does not support the factor 2^0, cxl_hmu_event_init sets ds_factor_pow2 to the
\* number of the lowest bit set in the mask of supported factors, which is a supported
\* factor and the smallest.
C38_DefaultDownsamplingIsMinimum ==
    DefaultDownsampling =>
        /\ hmu_ctl.hmu.ds_factor_pow2 \in CHMU_CAP.downsamp
        /\ \A b \in CHMU_CAP.downsamp : hmu_ctl.hmu.ds_factor_pow2 <= b

\* A counter of width bits can hold the threshold t.  (hot_thresh is a u32, and the
\* thresholds of the model are below 2^31.)
Representable(t, width) == width >= 31 \/ t < 2 ^ width

\* C39: cxl_hmu_start returns -EINVAL from the test of the threshold exactly when the
\* threshold cannot be held in a counter of the width STATUS reports, that is when
\* hot_thresh >= 2^width, whatever the width: the test is not upset by the width of the
\* type it is computed in.
C39_ThresholdRejectedIffTooWide ==
    [][StartConfigure =>
        ((hmu_ctl'.start.done /\ hmu_ctl'.start.line = 531)
            <=> ~Representable(hmu_ctl.hmu.hot_thresh, hmu_status.width))]_vars

\* The words of the range bitmap: the registers from bitmap_offset up to
\* hotlist_offset.
BitmapWords == 0 .. ((CHMU_CAP.ranges \div 64) - 1)

\* C40: when cxl_hmu_start programs the range bitmap for range_base and range_num,
\* every bit from range_base up to range_base + range_num - 1 is set in the bitmap
\* afterwards, and every word it writes is a word of the bitmap, none at or beyond
\* hotlist_offset, also when the range ends at the end of a word or of the bitmap.
C40_RangeBitmapWrites ==
    [][StartConfigure =>
        LET base == hmu_ctl.hmu.range_base
            end == hmu_ctl.hmu.range_base + hmu_ctl.hmu.range_num
        IN  /\ \A i \in base .. (end - 1) :
                    /\ (i \div 64) \in BitmapWords
                    /\ (i % 64) \in hmu_ctl'.regs.bitmap[i \div 64]
            /\ hmu_ctl'.start.wrote \subseteq BitmapWords]_vars

----------------------------------------------------------------------------
\* Properties of the kpromoted threads

\* The threads kthread_run has created for node n.
TasksOf(n) == {t \in DOMAIN kthreads.tasks : kthreads.tasks[t].nid = n}

\* A call of kpromoted_run after kpromoted_init returns in this step.
RunReturns == kthreads'.runs # kthreads.runs

\* C36: a node has at most one kpromoted thread, and pgdat->kpromoted is that thread or
\* NULL, never an error pointer; kpromoted_run for a node that has a thread creates
\* none and leaves pgdat->kpromoted, and when the task cannot be created the node is
\* left with NULL.
C36_OneSweeperPerNode ==
    /\ [](\A n \in CpuNodes :
            /\ Cardinality(TasksOf(n)) <= 1
            /\ ~IS_ERR(kthreads.pgdat[n])
            /\ IF TasksOf(n) = {} THEN kthreads.pgdat[n] = NULL
                                  ELSE kthreads.pgdat[n] \in TasksOf(n))
    /\ [][RunReturns =>
            LET nid == kthreads'.last.nid
            IN  /\ kthreads.pgdat[nid] # NULL =>
                        /\ kthreads'.tasks = kthreads.tasks
                        /\ kthreads'.pgdat = kthreads.pgdat
                /\ (kthreads.pgdat[nid] = NULL /\ ~kthreads'.last.ok) =>
                        /\ kthreads'.tasks = kthreads.tasks
                        /\ kthreads'.pgdat[nid] = NULL
                /\ (kthreads.pgdat[nid] = NULL /\ kthreads'.last.ok) =>
                        /\ Len(kthreads'.tasks) = Len(kthreads.tasks) + 1
                        /\ kthreads'.pgdat[nid] = Len(kthreads'.tasks)]_vars

\* kpromoted_run has been called for a node that had a thread, with kthread_run able
\* to create another, while the other node was left without one by a failure.
C36_Witness ==
    /\ kthreads.runs > 0
    /\ kthreads.last.ok
    /\ Cardinality(TasksOf(kthreads.last.nid)) = 1
    /\ kthreads.tasks[kthreads.pgdat[kthreads.last.nid]].pc # "loop"
    /\ \E n \in CpuNodes : kthreads.pgdat[n] = NULL /\ n # kthreads.last.nid

Sweeping == {"lock", "bucket", "unlock"}

\* C37: a kpromoted thread leaves the test of its loop to wait for one period when it
\* is not to stop, and returns there when it is; the wait ends after the period and
\* not before, with the sweep starting at bucket 0; a sweep, once started, goes through
\* every bucket whether or not the thread has been asked to stop, and the thread is
\* back at the test with no mutex held; a thread returns only from the test, so it
\* holds no mutex then; and a thread that has been asked to stop returns in the end.
C37_SweeperLifecycle ==
    /\ [](\A t \in DOMAIN kthreads.tasks :
            /\ kthreads.tasks[t].pc = "wait" =>
                    kthreads.tasks[t].left <= msecs_to_jiffies(KPROMOTE_DELAY)
            /\ kthreads.tasks[t].pc \in {"loop", "wait", "lock", "exited"} =>
                    Held(KthreadTask(t)) = {})
    /\ [][\A t \in DOMAIN kthreads.tasks :
            LET task == kthreads.tasks[t]
                next == kthreads'.tasks[t]
            IN  /\ (task.pc = "loop" /\ next.pc # "loop") =>
                        IF task.should_stop
                        THEN next.pc = "exited"
                        ELSE next.pc = "wait" /\ next.left = msecs_to_jiffies(KPROMOTE_DELAY)
                /\ (task.pc = "wait" /\ next.pc = "wait") => next.left <= task.left
                /\ (task.pc = "wait" /\ next.pc # "wait") =>
                        task.left = 0 /\ next.pc = "lock" /\ next.bkt = 0
                /\ (task.pc \in Sweeping /\ next.pc \notin Sweeping) =>
                        /\ next.pc = "loop"
                        /\ next.waited
                        /\ next.swept = Bkts
                /\ (task.pc \in Sweeping /\ next.pc \in Sweeping) =>
                        /\ next.bkt \in {task.bkt, task.bkt + 1}
                        /\ next.swept = task.swept \union
                                (IF next.bkt = task.bkt THEN {} ELSE {task.bkt})
                /\ task.pc = "exited" => next.pc = "exited"]_vars
    /\ \A t \in KthreadIds :
            (t \in DOMAIN kthreads.tasks /\ kthreads.tasks[t].should_stop)
                ~> (t \in DOMAIN kthreads.tasks /\ kthreads.tasks[t].pc = "exited")

\* A thread has waited, has gone through every bucket and has returned, while the
\* thread of the other node is in a sweep.
C37_Witness ==
    \E t \in DOMAIN kthreads.tasks :
        /\ kthreads.tasks[t].pc = "exited"
        /\ kthreads.tasks[t].waited
        /\ kthreads.tasks[t].swept = Bkts
        /\ \E u \in DOMAIN kthreads.tasks : u # t /\ kthreads.tasks[u].pc \in Sweeping

====
